---------------------------- MODULE Spec2Model ----------------------------
(***************************************************************************)
(* Model of the static-file HTTP server of src/src/index.ts (the current   *)
(* snapshot, lines 382-954) and of its static resolver src/src/static.ts.  *)
(*                                                                         *)
(* Strings that the code inspects character by character (request URLs,    *)
(* route requirements, file names) are sequences of one-character tokens;  *)
(* "%20", "%" and "favicon.ico" are single tokens (an escape, a malformed  *)
(* escape and an opaque file name).                                        *)
(*                                                                         *)
(* The run starts at module load: Startup builds ROUTES from the lines of  *)
(* the route file and constructs the static handler; either may throw.     *)
(***************************************************************************)
EXTENDS Integers, Sequences, FiniteSets, TLC

VARIABLES
    ROUTES_FILE, \* index.ts:607  the lines of the route file
    boot,       \* start-up: loading, up, or failed with the error thrown
    forced,     \* history: the directories listed for '//' requests now over
    ROUTES,     \* index.ts:635  the compiled route table
    opts,       \* static.ts:41-48 / index.ts:591-595  the static options
    fs,         \* the file system below the served root (and the assets)
    reqs,       \* the requests in flight: id -> [pc, req, res, ...]
    served,     \* number of requests the server accepted so far
    crashed,    \* the node process died of an uncaught exception
    rtPath,     \* argument of the last call of route()
    rtOut       \* its result, or NoCall

vars == <<ROUTES_FILE, boot, forced, ROUTES, opts, fs, reqs, served, crashed, rtPath, rtOut>>

---------------------------------------------------------------------------
(* Bounds *)

MaxRules == 2
MaxServed == 2

---------------------------------------------------------------------------
(* Character sequences *)

\* a JavaScript value that may be undefined: <<>> is undefined, <<v>> is v
undefined == <<>>
NoCall == <<>>

startsWith(s, t) ==
    /\ Len(t) <= Len(s)
    /\ SubSeq(s, 1, Len(t)) = t

endsWith(s, t) ==
    /\ Len(t) <= Len(s)
    /\ SubSeq(s, Len(s) - Len(t) + 1, Len(s)) = t

\* String.prototype.indexOf: first 1-based position of t in s, 0 if none
indexOf(s, t) ==
    LET P == {i \in 1..(Len(s) - Len(t) + 1) : SubSeq(s, i, i + Len(t) - 1) = t}
    IN IF P = {} THEN 0 ELSE CHOOSE i \in P : \A j \in P : i <= j

includes(s, t) == indexOf(s, t) # 0

\* The replacement argument of String.prototype.replace is a template: from
\* position i on, "$$" stands for "$" and "$&" for the matched text (the
\* patterns for the text before and after the match are not used here).
RECURSIVE expand(_, _, _)
expand(u, i, matched) ==
    IF i > Len(u) THEN <<>>
    ELSE IF u[i] = "$" /\ i < Len(u) /\ u[i + 1] \in {"$", "&"}
    THEN (IF u[i + 1] = "$" THEN <<"$">> ELSE matched) \o expand(u, i + 2, matched)
    ELSE <<u[i]>> \o expand(u, i + 1, matched)

\* String.prototype.replace(string, string): the first occurrence only
replaceFirst(s, t, u) ==
    LET i == indexOf(s, t)
    IN IF i = 0 THEN s
       ELSE SubSeq(s, 1, i - 1)
            \o expand(u, 1, t)
            \o SubSeq(s, i + Len(t), Len(s))

\* p.replace(/\/+$/, '/')
RECURSIVE stripSlashes(_)
stripSlashes(s) ==
    IF Len(s) > 0 /\ s[Len(s)] = "/" THEN stripSlashes(SubSeq(s, 1, Len(s) - 1))
    ELSE s

\* a replace that leaves trailing slashes as they are
keepTrailing(s) == s

collapseTrailing(s) ==
    IF Len(s) > 0 /\ s[Len(s)] = "/" THEN stripSlashes(s) \o <<"/">> ELSE s

lower(c) ==
    CASE c = "O" -> "o"
      [] c = "X" -> "x"
      [] c = "A" -> "a"
      [] c = "P" -> "p"
      [] c = "I" -> "i"
      [] OTHER -> c

---------------------------------------------------------------------------
(* Route table: index.ts:626-654 *)

\* The groups g of a parsed route line and the compiled rule built from them.
Rule(q, req, op, res) ==
    [redirect |-> (op = ">"), g |-> [q |-> q, req |-> req, op |-> op, res |-> res]]

\* one pattern character of the RegExp against one path character
reChar(pc, c, ci) ==
    \/ pc = "."
    \/ IF ci THEN lower(pc) = lower(c) ELSE pc = c

\* r.test(p) for r = new RegExp('^' + g.req.slice(0, -1), flags)
reTest(pat, p, ci) ==
    /\ Len(pat) <= Len(p)
    /\ \A i \in 1..Len(pat) : reChar(pat[i], p[i], ci)

\* Route.try (index.ts:649-652)
try(r, p) ==
    IF r.g.q # ""
    THEN LET pat == SubSeq(r.g.req, 1, Len(r.g.req) - 1)
             ci  == (r.g.q = "&")
         IN IF reTest(pat, p, ci)
            THEN <<expand(r.g.res, 1, SubSeq(p, 1, Len(pat)))
                   \o SubSeq(p, Len(pat) + 1, Len(p))>>
            ELSE undefined
    ELSE IF startsWith(p, r.g.req)
         THEN <<replaceFirst(p, r.g.req, r.g.res)>>
         ELSE undefined

\* the for loop of route(), from rule i on
RECURSIVE routeFrom(_, _, _)
routeFrom(T, i, path) ==
    IF i > Len(T) THEN <<FALSE, path>>
    ELSE LET p == try(T[i], path)
         IN IF p # undefined THEN <<T[i].redirect, collapseTrailing(p[1])>>
            ELSE routeFrom(T, i + 1, path)

\* a route() whose loop lets a later matching rule override an earlier one
RECURSIVE routeBack(_, _, _)
routeBack(T, i, path) ==
    IF i < 1 THEN <<FALSE, path>>
    ELSE LET p == try(T[i], path)
         IN IF p # undefined THEN <<T[i].redirect, collapseTrailing(p[1])>>
            ELSE routeBack(T, i - 1, path)

routeLastMatch(T, path) == routeBack(T, Len(T), path)

\* a route() that tidies the path even when no rule matched
routeTidy(T, path) == <<routeFrom(T, 1, path)[1], collapseTrailing(routeFrom(T, 1, path)[2])>>

route(T, path) == routeFrom(T, 1, path)

---------------------------------------------------------------------------
(* Route file: index.ts:635-654 *)

\* line.split('#')[0]
stripComment(l) ==
    IF indexOf(l, <<"#">>) = 0 THEN l ELSE SubSeq(l, 1, indexOf(l, <<"#">>) - 1)

\* first position from k on that holds no white space, Len(l) + 1 if none
RECURSIVE skipSpace(_, _)
skipSpace(l, k) ==
    IF k <= Len(l) /\ l[k] = " " THEN skipSpace(l, k + 1) ELSE k

RECURSIVE trimEnd(_)
trimEnd(l) ==
    IF Len(l) > 0 /\ l[Len(l)] = " " THEN trimEnd(SubSeq(l, 1, Len(l) - 1)) ELSE l

\* String.prototype.trim
trim(l) == trimEnd(SubSeq(l, skipSpace(l, 1), Len(l)))

\* the line as the map callback parses and reports it
stripped(l) == trim(stripComment(l))

\* \s*(?<op>[:=>])\s*(?<res>\S*?)$ matches l from position k
tailMatches(l, k) ==
    /\ skipSpace(l, k) <= Len(l)
    /\ l[skipSpace(l, k)] \in {":", "=", ">"}
    /\ \A n \in skipSpace(l, skipSpace(l, k) + 1)..Len(l) : l[n] # " "

\* number of characters the greedy (?<q>&?&?) takes
qLen(l) ==
    IF Len(l) >= 2 /\ l[1] = "&" /\ l[2] = "&" THEN 2
    ELSE IF Len(l) >= 1 /\ l[1] = "&" THEN 1 ELSE 0

\* the ends the lazy (?<req>\/\S*?) can have for the whole pattern to match
reqEnds(l) ==
    {e \in skipSpace(l, qLen(l) + 1)..Len(l) :
        /\ l[skipSpace(l, qLen(l) + 1)] = "/"
        /\ \A n \in skipSpace(l, qLen(l) + 1)..e : l[n] # " "
        /\ tailMatches(l, e + 1)}

\* the groups of the RegExp of index.ts:642 on l: <<>> when it does not match
exec(l) ==
    IF reqEnds(l) = {} THEN <<>>
    ELSE LET a == skipSpace(l, qLen(l) + 1)
             e == CHOOSE e \in reqEnds(l) : \A f \in reqEnds(l) : e <= f
             j == skipSpace(l, e + 1)
         IN <<[q |-> IF qLen(l) = 2 THEN "&&" ELSE IF qLen(l) = 1 THEN "&" ELSE "",
               req |-> SubSeq(l, a, e),
               op |-> l[j],
               res |-> SubSeq(l, skipSpace(l, j + 1), Len(l))]>>

NoRule == Rule("", <<>>, "", <<>>)

\* the map callback on one line: null, a rule, or err() thrown
parseRoute(line) ==
    LET l == stripped(line)
        s == exec(l)
    IN IF l = <<>> THEN [null |-> TRUE, bad |-> FALSE, rule |-> NoRule, text |-> l]
       ELSE IF s = <<>> \/ (s[1].q # "" /\ ~endsWith(s[1].req, <<"/">>))
       THEN [null |-> FALSE, bad |-> TRUE, rule |-> NoRule, text |-> l]
       ELSE [null |-> FALSE, bad |-> FALSE, text |-> l,
             rule |-> Rule(s[1].q, s[1].req, s[1].op, s[1].res)]

NoErr == [msg |-> "", line |-> 0, text |-> <<>>]

\* new Error(`Malformed route at line ${i + 1}:\n${line}`)
Malformed(i, text) == [msg |-> "Malformed route at line", line |-> i, text |-> text]

\* a construction that drops the lines it cannot parse
RECURSIVE compileLenient(_, _, _)
compileLenient(F, i, acc) ==
    IF i > Len(F) THEN [err |-> NoErr, table |-> acc]
    ELSE compileLenient(F, i + 1,
             IF parseRoute(F[i]).null \/ parseRoute(F[i]).bad THEN acc
             ELSE Append(acc, parseRoute(F[i]).rule))

\* ROUTES_FILE.split('\n').map(...).filter(v => v), from line i on
RECURSIVE compileRoutes(_, _, _)
compileRoutes(F, i, acc) ==
    IF i > Len(F) THEN [err |-> NoErr, table |-> acc]
    ELSE IF parseRoute(F[i]).bad
    THEN [err |-> Malformed(i, parseRoute(F[i]).text), table |-> <<>>]
    ELSE compileRoutes(F, i + 1,
             IF parseRoute(F[i]).null THEN acc ELSE Append(acc, parseRoute(F[i]).rule))

---------------------------------------------------------------------------
(* URLs: index.ts:671, 769, 777-778 *)

\* url.split('?')[0]
getPath(url) ==
    LET i == indexOf(url, <<"?">>)
    IN IF i = 0 THEN url ELSE SubSeq(url, 1, i - 1)

\* req.url.split('?').splice(1).join('?'): what follows the first '?'
queryRest(url) ==
    LET i == indexOf(url, <<"?">>)
    IN IF i = 0 THEN <<>> ELSE SubSeq(url, i + 1, Len(url))

\* decodeURI throws URIError on a malformed escape
decodeThrows(s) == \E i \in 1..Len(s) : s[i] = "%"

decodeChar(c) ==
    CASE c = "%20" -> " "
      [] c = "%6F" -> "o"
      [] c = "%25" -> "%"
      [] OTHER -> c

decodeURI(s) == [i \in 1..Len(s) |-> decodeChar(s[i])]

encodeChar(c) ==
    CASE c = " " -> "%20"
      [] c = "%" -> "%25"
      [] OTHER -> c

encodeURI(s) == [i \in 1..Len(s) |-> encodeChar(s[i])]

---------------------------------------------------------------------------
(* The file system, as node:path and node:fs present it *)

\* the segments of a path, split at '/'
RECURSIVE segsFrom(_, _, _, _)
segsFrom(s, i, cur, acc) ==
    IF i > Len(s) THEN Append(acc, cur)
    ELSE IF s[i] = "/" THEN segsFrom(s, i + 1, <<>>, Append(acc, cur))
    ELSE segsFrom(s, i + 1, Append(cur, s[i]), acc)

\* path.normalize on the segments: '' and '.' dropped, '..' pops
RECURSIVE normSegs(_, _, _)
normSegs(segs, i, acc) ==
    IF i > Len(segs) THEN acc
    ELSE IF segs[i] = <<>> \/ segs[i] = <<".">> THEN normSegs(segs, i + 1, acc)
    ELSE IF segs[i] = <<".", ".">> /\ Len(acc) > 0 /\ acc[Len(acc)] # <<".", ".">>
         THEN normSegs(segs, i + 1, SubSeq(acc, 1, Len(acc) - 1))
    ELSE normSegs(segs, i + 1, Append(acc, segs[i]))

\* join(root, path) and resolve(path) for root = './': the entry a path names
Key(p) == normSegs(segsFrom(p, 1, <<>>, <<>>), 1, <<>>)

\* fs.existsSync: a path with a trailing '/' exists only as a directory
existsSync(F, p) ==
    LET k == Key(p)
    IN /\ k \in DOMAIN F
       /\ (endsWith(p, <<"/">>) => F[k].kind = "dir")

\* resolve() drops the trailing '/': index.ts:813-814
existsResolved(F, p) == Key(p) \in DOMAIN F

isDirectory(F, p) == F[Key(p)].kind = "dir"

\* the names fs.promises.readdir yields for directory k
readdir(F, k) ==
    {e[Len(e)] : e \in {f \in DOMAIN F : Len(f) = Len(k) + 1 /\ SubSeq(f, 1, Len(k)) = k}}

---------------------------------------------------------------------------
(* The response object: index.ts:886-933 *)

NoExc == [kind |-> "none", code |-> 0]

Body(kind, text) ==
    [kind |-> kind, text |-> text, file |-> <<>>, fmt |-> "", up |-> FALSE,
     entries |-> {}, types |-> <<>>]

NoBody == Body("none", "")

\* the response as the createServer callback hands it to genHandler
NewRes(url) ==
    [url |-> url, statusCode |-> 200, hLocation |-> <<>>, hCache |-> <<>>,
     hType |-> <<>>, hLen |-> <<>>, hEtag |-> <<>>, body |-> NoBody,
     sent |-> FALSE, tr |-> <<>>, ctl |-> "run", exc |-> NoExc,   \* exc: the last throw
     localsFs |-> FALSE, errLog |-> <<>>, lpath |-> <<>>, plist |-> {},
     stats |-> <<>>,     \* stats: what statSync returned for the file served
     pending |-> FALSE,  \* pendingRequests.has(req)
     onClose |-> FALSE,  \* the 'close' listener of reqLog is registered on res
     closed |-> FALSE,   \* req.closed
     closeEmitted |-> FALSE,   \* res has emitted 'close'
     found |-> "none",   \* what pendingRequests.get(req) gave the 'close' listener
     swept |-> FALSE]    \* the ticker deleted the entry of the request

\* F applied to the value of e, which is evaluated once
With(e, F(_)) == CHOOSE v \in {F(y) : y \in {e}} : TRUE

\* one more event in the request's history
ev(x, e) == [x EXCEPT !.tr = Append(@, e)]

throw(x, kind, code) == [x EXCEPT !.ctl = "throw", !.exc = [kind |-> kind, code |-> code]]

\* index.ts:725-752, resp.log = () => reqLog(req, resp): the line is logged,
\* the request gets its entry in pendingRequests, res.once('close', ...)
reqLog(x) == [ev(x, "log") EXCEPT !.pending = TRUE, !.onClose = TRUE]

\* every setHeader leaves a "header" event, every end() or pipe() an "end" event
typeLen(x, type, len) ==
    [x EXCEPT !.hType = <<type>>, !.hLen = <<len>>, !.tr = Append(@, "header")]

status(x, code) == [x EXCEPT !.statusCode = code]

cacheControl(x, maxAge) == [x EXCEPT !.hCache = <<maxAge>>, !.tr = Append(@, "header")]

end(x, body) == [x EXCEPT !.body = body, !.sent = TRUE, !.tr = Append(@, "end")]

\* a Content-Length: stats.size of a file, or body.length of the body sent
LenOfStats(stats) == [of |-> "stats", text |-> "", n |-> stats.size]
LenOfBody(body) == [of |-> "body", text |-> body.text, n |-> 0]

\* a send that ends the response without logging the request
sendUnlogged(x, type, body) == end(typeLen(x, type, LenOfBody(body)), body)

\* index.ts:893-896
send(x, type, body) == end(reqLog(typeLen(x, type, LenOfBody(body))), body)

redirect(x, location) ==
    end([x EXCEPT !.statusCode = 302, !.hLocation = <<location>>], Body("empty", ""))

HexDigits == <<"0", "1", "2", "3", "4", "5", "6", "7", "8", "9",
               "a", "b", "c", "d", "e", "f">>

\* Number.prototype.toString(16)
RECURSIVE hex(_)
hex(n) == IF n < 16 THEN <<HexDigits[n + 1]>>
          ELSE hex(n \div 16) \o <<HexDigits[(n % 16) + 1]>>

\* etag(stats) of the etag package, for an fs.Stats: the weak validator
\* W/"<size in hex>-<mtime.getTime() in hex>"
etagOf(stats) ==
    <<"W/", "\"">> \o hex(stats.size) \o <<"-">> \o hex(stats.mtime) \o <<"\"">>

\* an ETag header computed from the size of the file alone
etagBySize(x, stats) ==
    [x EXCEPT !.hEtag = <<etagOf([stats EXCEPT !.mtime = 0])>>, !.tr = Append(@, "header")]

\* index.ts:922-926
etag(x, stats) == [x EXCEPT !.hEtag = <<etagOf(stats)>>, !.tr = Append(@, "header")]

\* a matchEtag that never finds the validator current
matchEtagNever(x0, req) ==
    With(x0, LAMBDA x :
        IF x.hEtag = <<>> THEN throw(x, "Error", 0) ELSE [x EXCEPT !.ctl = "false"])

\* a matchEtag that takes any If-None-Match header for a match
matchEtagAny(x0, req) ==
    With(x0, LAMBDA x :
        IF x.hEtag = <<>> THEN throw(x, "Error", 0)
        ELSE IF req.inm # <<>>
             THEN [end(status(x, 304), Body("empty", "")) EXCEPT !.ctl = "true"]
             ELSE [x EXCEPT !.ctl = "false"])

\* resp.matchEtag: the response with ctl "true" when it answered 304
matchEtag(x0, req) ==
    With(x0, LAMBDA x :
        IF x.hEtag = <<>> THEN throw(x, "Error", 0)
        ELSE IF req.inm = x.hEtag
             THEN [end(status(x, 304), Body("empty", "")) EXCEPT !.ctl = "true"]
             ELSE [x EXCEPT !.ctl = "false"])

\* accepts(req).type(keys): <<key>>, or <<>> when none is acceptable
acceptsType(accept, keys) ==
    LET S == {i \in 1..Len(accept.ranges) :
                 \E k \in 1..Len(keys) : keys[k] = accept.ranges[i]}
    IN IF ~accept.present THEN <<keys[1]>>
       ELSE IF S # {} THEN <<accept.ranges[CHOOSE i \in S : \A j \in S : i <= j]>>
       ELSE IF \E i \in 1..Len(accept.ranges) : accept.ranges[i] = "*" THEN <<keys[1]>>
       ELSE <<>>

FormatKeys == <<"html", "json", "text">>

\* a format that runs its first callback when the client accepts none
formatFirst(x, req, map) ==
    LET acceptType == acceptsType(req.accept, FormatKeys)
    IN IF acceptType = <<>>
       THEN send(ev(x, "format"), map[FormatKeys[1]].type, map[FormatKeys[1]].body)
       ELSE send(ev(x, "format"), map[acceptType[1]].type, map[acceptType[1]].body)

\* resp.format(map): map[k] is the (type, body) the callback of key k sends
format(x, req, map) ==
    LET acceptType == acceptsType(req.accept, FormatKeys)
    IN IF acceptType = <<>>
       THEN send(status(ev(x, "format"), 406), "application/json",
                 [Body("unsupported", "UnsupportedType") EXCEPT !.types = FormatKeys])
       ELSE send(ev(x, "format"), map[acceptType[1]].type, map[acceptType[1]].body)

PageMap(page, json, text) ==
    [html |-> [type |-> "text/html", body |-> Body("page", page)],
     json |-> [type |-> "application/json", body |-> Body("text", json)],
     text |-> [type |-> "text/plain", body |-> Body("text", text)]]

\* a not-found page sent under the status the response already has
notFoundAsIs(o, req, x) ==
    [format(cacheControl(ev(x, "notFoundHandler"), o.maxAge), req,
            PageMap("NOT_FOUND_PAGE", "{\"error\":\"Not Found\"}", "Not Found"))
     EXCEPT !.ctl = "ret"]

\* index.ts:848-856
notFoundHandler(o, req, x) ==
    [format(status(cacheControl(ev(x, "notFoundHandler"), o.maxAge), 404), req,
            PageMap("NOT_FOUND_PAGE", "{\"error\":\"Not Found\"}", "Not Found"))
     EXCEPT !.ctl = "ret"]

\* index.ts:858-866
forbiddenHandler(o, req, x) ==
    [format(status(cacheControl(ev(x, "forbiddenHandler"), o.maxAge), 403), req,
            PageMap("FORBIDDEN_PAGE", "{\"error\":\"Forbidden\"}", "Forbidden"))
     EXCEPT !.ctl = "ret"]

\* index.ts:868-884; decodeURI(req.url) may throw before anything is logged
errorHandler(o, req, x0) ==
    With(ev(x0, "errorHandler"), LAMBDA x :
        IF decodeThrows(x.url) THEN throw(x, "URIError", 0)
        ELSE [format(status(cacheControl(
                       [x EXCEPT !.errLog = <<req.method, decodeURI(x.url)>>],
                       o.maxAge), 500), req,
                     PageMap("ERROR_PAGE", "{\"error\":\"Internal Server Error\"}",
                             "Internal Server Error"))
              EXCEPT !.ctl = "ret"])

---------------------------------------------------------------------------
(* The static resolver: static.ts:40-110, and mime lookup *)

\* lookup(path): the type of what follows the last '.' or '/'
lookup(path) ==
    LET S == {i \in 1..Len(path) : path[i] \in {".", "/"}}
        last == IF S = {} THEN 0 ELSE CHOOSE i \in S : \A j \in S : j <= i
        ext == SubSeq(path, last + 1, Len(path))
    IN CASE ext = <<"h">> -> "text/html"
         [] ext = <<"j">> -> "application/json"
         [] OTHER -> "application/octet-stream"

StaticError(x, code) == throw(x, "StaticError", code)

\* static.ts:63-77; ctl is "true", "false" or "throw"
resp(o, F, req, x, path) ==
    IF ~existsSync(F, path) THEN [ev(x, "exists") EXCEPT !.ctl = "false"]
    ELSE IF req.fault = "stat" THEN throw(ev(ev(x, "exists"), "stat"), "Error", 0)
    ELSE LET stats == F[Key(path)]
             x3 == reqLog(typeLen(cacheControl([ev(ev(x, "exists"), "stat")
                                                EXCEPT !.stats = <<stats>>], o.maxAge),
                                  lookup(path), LenOfStats(stats)))
         IN With(IF o.etag THEN matchEtag(etag(x3, stats), req)
                 ELSE [x3 EXCEPT !.ctl = "false"],
                 LAMBDA m :
                    IF m.ctl # "false" THEN m
                    ELSE [end(ev(m, "open"), [Body("file", "") EXCEPT !.file = Key(path)])
                          EXCEPT !.ctl = "true"])

\* an extension loop that walks the list from its end
RECURSIVE extLoopRev(_, _, _, _, _, _)
extLoopRev(o, F, req, x, path, i) ==
    IF i > Len(o.extensions.list) THEN [x EXCEPT !.ctl = "false"]
    ELSE With(resp(o, F, req, x,
                   path \o <<".">> \o o.extensions.list[Len(o.extensions.list) + 1 - i]),
              LAMBDA r : IF r.ctl = "false" THEN extLoopRev(o, F, req, r, path, i + 1) ELSE r)

\* static.ts:93-95, from extension i on; ctl "false" when none was served
RECURSIVE extLoop(_, _, _, _, _, _)
extLoop(o, F, req, x, path, i) ==
    IF i > Len(o.extensions.list) THEN [x EXCEPT !.ctl = "false"]
    ELSE With(resp(o, F, req, x, path \o <<".">> \o o.extensions.list[i]),
              LAMBDA r : IF r.ctl = "false" THEN extLoop(o, F, req, r, path, i + 1) ELSE r)

\* static.ts:79-98: the try block after the dotfile check
staticResolve(o, F, req, x, path) ==
    LET x1 == ev(x, "exists")
        notFound(r) == IF r.ctl = "false" THEN StaticError(r, 404) ELSE r
    IN IF existsSync(F, path)
       THEN IF req.fault = "stat" THEN throw(ev(x1, "stat"), "Error", 0)
            ELSE LET dir0  == isDirectory(F, path)
                     path1 == IF dir0 /\ o.redirect /\ ~endsWith(path, <<"/">>)
                              THEN path \o <<"/">> ELSE path
                     ix    == dir0 /\ o.index # <<>>
                     newPath == path1 \o o.index
                     found == ix /\ existsSync(F, newPath)
                     path2 == IF found THEN newPath ELSE path1
                     x2 == IF ix THEN ev(ev(ev(x1, "stat"), "exists"), "stat")
                           ELSE ev(x1, "stat")
                     dir == IF ix THEN isDirectory(F, path2) ELSE dir0
                 IN IF dir THEN StaticError(x2, 404)
                    ELSE With(resp(o, F, req, x2, path2), notFound)
       ELSE IF o.extensions.on
            THEN With(extLoop(o, F, req, x1, path, 1), notFound)
            ELSE StaticError(x1, 404)

\* a check of the extensions that lets every value pass
noTraversal(o) == FALSE

\* static.ts:45: some extension holds a path separator
traversal(o) ==
    /\ o.extensions.on
    /\ \E i \in 1..Len(o.extensions.list) :
          \E n \in 1..Len(o.extensions.list[i]) : o.extensions.list[i][n] \in {"/", "\\"}

\* new Error('Extension path traversal is not allowed')
TraversalError == [msg |-> "Extension path traversal is not allowed", line |-> 0, text |-> <<>>]

\* a handler that goes on after resp() has answered: it runs into the
\* StaticError(404) of static.ts:98 and calls next
staticNoReturn(o, F, req, x0) ==
    With(ev(x0, "static"), LAMBDA x :
    LET path == <<".">> \o x.url
        body == IF includes(path, <<"/", ".">>) /\ o.dotfiles = "deny"
                THEN StaticError(x, 403)
                ELSE IF includes(path, <<"/", ".">>) /\ o.dotfiles = "ignore"
                THEN StaticError(x, 404)
                ELSE staticResolve(o, F, req, x, path)
    IN With(body, LAMBDA r :
         IF r.ctl = "true" \/ (r.ctl = "throw" /\ r.exc.kind = "StaticError")
         THEN IF o.fallthrough
              THEN [status(r, IF r.ctl = "true" THEN 404 ELSE r.exc.code)
                    EXCEPT !.ctl = "next"]
              ELSE [r EXCEPT !.ctl = "nextErr"]
         ELSE r))

\* a handler that falls through without touching the status
staticQuiet(o, F, req, x0) ==
    With(ev(x0, "static"), LAMBDA x :
    LET path == <<".">> \o x.url
        body == IF includes(path, <<"/", ".">>) /\ o.dotfiles = "deny"
                THEN StaticError(x, 403)
                ELSE IF includes(path, <<"/", ".">>) /\ o.dotfiles = "ignore"
                THEN StaticError(x, 404)
                ELSE staticResolve(o, F, req, x, path)
    IN With(body, LAMBDA r :
         IF r.ctl = "throw" /\ r.exc.kind = "StaticError"
         THEN IF o.fallthrough
              THEN [r EXCEPT !.ctl = "next"]
              ELSE [r EXCEPT !.ctl = "nextErr"]
         ELSE IF r.ctl = "true" THEN [r EXCEPT !.ctl = "ret"]
         ELSE r))

\* static.ts:51-109: ctl is "ret" (answered), "next" (next()), "nextErr"
\* (next(err)) or "throw" (an error that is no StaticError, thrown on)
static(o, F, req, x0) ==
    With(ev(x0, "static"), LAMBDA x :
    LET path == <<".">> \o x.url
        body == IF includes(path, <<"/", ".">>) /\ o.dotfiles = "deny"
                THEN StaticError(x, 403)
                ELSE IF includes(path, <<"/", ".">>) /\ o.dotfiles = "ignore"
                THEN StaticError(x, 404)
                ELSE staticResolve(o, F, req, x, path)
    IN With(body, LAMBDA r :
         IF r.ctl = "throw" /\ r.exc.kind = "StaticError"
         THEN IF o.fallthrough
              THEN [status(r, r.exc.code) EXCEPT !.ctl = "next"]
              ELSE [r EXCEPT !.ctl = "nextErr"]
         ELSE IF r.ctl = "true" THEN [r EXCEPT !.ctl = "ret"]
         ELSE r))

---------------------------------------------------------------------------
(* The handlers of index.ts:767-846 *)

FaviconKey == <<<<"@assets">>, <<"favicon.ico">>>>

\* index.ts:799-811: the built-in favicon
favicon(o, F, req, x) ==
    IF req.fault = "stat" THEN [throw(ev(x, "stat"), "Error", 0) EXCEPT !.ctl = "reject"]
    ELSE LET stats == F[FaviconKey]
             x1 == reqLog(typeLen(cacheControl([ev(x, "stat") EXCEPT !.stats = <<stats>>],
                                               o.maxAge),
                                  "image/x-icon", LenOfStats(stats)))
         IN With(IF o.etag THEN matchEtag(etag(x1, stats), req)
                 ELSE [x1 EXCEPT !.ctl = "false"],
                 LAMBDA m :
                    IF m.ctl = "throw" THEN [m EXCEPT !.ctl = "reject"]
                    ELSE IF m.ctl = "true" THEN [m EXCEPT !.ctl = "ret"]
                    ELSE [end(ev(m, "open"), [Body("file", "") EXCEPT !.file = FaviconKey])
                          EXCEPT !.ctl = "ret"])

\* index.ts:793-815, up to the first await; ctl "await" when it suspends
\* at readdir, "reject" when the async function throws
fileHandler(o, F, req, x0) ==
    With(ev(x0, "fileHandler"), LAMBDA x :
       IF x.statusCode = 403 THEN forbiddenHandler(o, req, x)
       ELSE
       LET x1 == IF x.statusCode = 404 THEN status(x, 200) ELSE x
           path == decodeURI(getPath(x.url))
           fpath == <<".">> \o decodeURI(path)
           x2 == IF path = <<"/", "favicon.ico">> THEN ev(x1, "exists") ELSE x1
       IN IF decodeThrows(getPath(x.url)) THEN [throw(x1, "URIError", 0) EXCEPT !.ctl = "reject"]
          ELSE IF path = <<"/", "favicon.ico">> /\ FaviconKey \in DOMAIN F
          THEN favicon(o, F, req, x2)
          ELSE IF decodeThrows(path) THEN [throw(x2, "URIError", 0) EXCEPT !.ctl = "reject"]
          ELSE IF endsWith(path, <<"/">>) /\ ~includes(path, <<"/", ".">>)
          THEN IF existsResolved(F, fpath)
               THEN [ev(ev(x2, "exists"), "readdir") EXCEPT !.ctl = "await", !.lpath = path]
               ELSE notFoundHandler(o, req, ev(x2, "exists"))
          ELSE notFoundHandler(o, req, x2))

\* a genHandler without the '//' branch: every GET request is routed
genHandlerRouted(o, F, T, req, x) ==
    LET reqPath == getPath(req.url)
        path == decodeURI(reqPath)
        rt == route(T, encodeURI(path))
        url == rt[2] \o queryRest(req.url)
        x1 == [ev(x, "route") EXCEPT !.url = url]
    IN IF decodeThrows(reqPath) THEN throw(x, "URIError", 0)
       ELSE IF req.method # "GET" THEN notFoundHandler(o, req, x)
       ELSE IF rt[1] THEN [redirect(reqLog(x1), url) EXCEPT !.ctl = "ret"]
       ELSE With(static(o, F, req, x1), LAMBDA s :
                IF s.ctl = "next" THEN fileHandler(o, F, req, s)
                ELSE IF s.ctl = "nextErr" THEN errorHandler(o, req, s)
                ELSE s)

\* index.ts:767-791
genHandler(o, F, T, req, x) ==
    LET reqPath == getPath(req.url)
        path == decodeURI(reqPath)
        rt == route(T, encodeURI(path))
        url == rt[2] \o queryRest(req.url)
        x1 == [ev(x, "route") EXCEPT !.url = url]
    IN IF decodeThrows(reqPath) THEN throw(x, "URIError", 0)
       ELSE IF req.method # "GET" THEN notFoundHandler(o, req, x)
       ELSE IF startsWith(reqPath, <<"/", "/">>)
       THEN fileHandler(o, F, req, [x EXCEPT !.localsFs = TRUE])
       ELSE IF rt[1] THEN [redirect(reqLog(x1), url) EXCEPT !.ctl = "ret"]
       ELSE With(static(o, F, req, x1), LAMBDA s :
                IF s.ctl = "next" THEN fileHandler(o, F, req, s)
                ELSE IF s.ctl = "nextErr" THEN errorHandler(o, req, s)
                ELSE s)

\* a listing that keeps every name readdir resolves to
listEvery(F, k) == readdir(F, k)

\* index.ts:815: what readdir resolves to, filtered
listNames(F, k) == {n \in readdir(F, k) : n[1] # "."}

\* index.ts:817-824: the entries of the listing
flist(F, k, plist) ==
    {[name |-> IF F[Append(k, n)].kind = "dir" THEN n \o <<"/">> ELSE n,
      size |-> F[Append(k, n)].size, mtime |-> F[Append(k, n)].mtime] : n \in plist}

\* index.ts:825-842: the three representations of a listing
listing(o, req, x, path, entries) ==
    LET L(fmt, up) == [Body("listing", "") EXCEPT !.fmt = fmt, !.up = up, !.entries = entries]
    IN [format(x, req,
               [html |-> [type |-> "text/html", body |-> L("html", path # <<"/">>)],
                json |-> [type |-> "application/json", body |-> L("json", FALSE)],
                text |-> [type |-> "text/plain", body |-> L("text", FALSE)]])
        EXCEPT !.ctl = "ret"]

---------------------------------------------------------------------------
(* The environment: a file tree, a route file, the requests clients send *)

File(size, mtime) == [kind |-> "file", size |-> size, mtime |-> mtime]
Dir == [kind |-> "dir", size |-> 0, mtime |-> 1]

\* root/  i  p.j  p.h  q.h  .s  .g/  d/{f, .t}  e/{i}   and the favicon asset
FS0 ==
    (<<>> :> Dir)
    @@ (<<<<"i">>>> :> File(1, 1))
    @@ (<<<<"p", ".", "j">>>> :> File(1, 1))
    @@ (<<<<"p", ".", "h">>>> :> File(2, 1))
    @@ (<<<<"q", ".", "h">>>> :> File(1, 1))
    @@ (<<<<".", "s">>>> :> File(1, 1))
    @@ (<<<<".", "g">>>> :> Dir)
    @@ (<<<<"d">>>> :> Dir)
    @@ (<<<<"d">>, <<"f">>>> :> File(2, 1))
    @@ (<<<<"d">>, <<".", "t">>>> :> File(1, 1))
    @@ (<<<<"e">>>> :> Dir)
    @@ (<<<<"e">>, <<"i">>>> :> File(2, 1))
    @@ (FaviconKey :> File(2, 1))

\* /o/ > /n/     /o/x > /z     /r/ := /d/     /.w/ = /d/
Routes0 ==
    << Rule("", <<"/", "o", "/">>, ">", <<"/", "n", "/">>),
       Rule("", <<"/", "o", "/", "x">>, ">", <<"/", "z">>),
       Rule("", <<"/", "r", "/">>, ":", <<"/", "d", "/">>),
       Rule("", <<"/", ".", "w", "/">>, "=", <<"/", "d", "/">>) >>

\* the route file Routes0 is compiled from
Routes0File ==
    << <<"/", "o", "/", " ", ">", " ", "/", "n", "/">>,
       <<"/", "o", "/", "x", " ", ">", " ", "/", "z">>,
       <<"/", "r", "/", " ", ":", " ", "/", "d", "/">>,
       <<"/", ".", "w", "/", " ", "=", " ", "/", "d", "/">> >>

Urls ==
    { <<"/">>, <<"/", "d", "/">>, <<"/", "d">>, <<"/", "e">>,
      <<"/", "p">>, <<"/", "q">>, <<"/", "p", ".", "j">>, <<"/", "p", ".", "j", "/">>,
      <<"/", "x">>, <<"/", ".", "s">>, <<"/", ".", "n">>, <<"/", "d", "/", ".", "t">>,
      <<"/", "/">>, <<"/", "/", "d", "/">>, <<"/", "/", ".", "s">>, <<"/", "/", "e">>,
      <<"/", "o", "/", "x">>, <<"/", "o", "/", "x", "?", "k">>,
      <<"/", "r", "/">>, <<"/", "r", "/", "f">>,
      <<"/", "favicon.ico">>, <<"/", "d", "/", "?", "k">>, <<"/", "%">>,
      <<"/", ".", "g", "/">>, <<"/", ".", "w", "/", "f">> }

Accepts ==
    { [present |-> FALSE, ranges |-> <<>>],
      [present |-> TRUE, ranges |-> <<"json">>],
      [present |-> TRUE, ranges |-> <<"text", "html">>],
      [present |-> TRUE, ranges |-> <<"png">>] }

\* If-None-Match: absent, or one of the validators a file of FS0 has
IfNoneMatch == { <<>>, <<etagOf(File(1, 1))>>, <<etagOf(File(2, 1))>> }

Faults == {"none", "stat", "readdir"}

Requests ==
    [method : {"GET"}, url : Urls, accept : Accepts, inm : IfNoneMatch, fault : Faults]
    \cup [method : {"POST"}, url : {<<"/", "d", "/">>, <<"/", "x">>, <<"/", "%">>},
          accept : Accepts,
          inm : {<<>>}, fault : {"none"}]

NoReq ==
    [method |-> "", url |-> <<>>, accept |-> [present |-> FALSE, ranges |-> <<>>],
     inm |-> <<>>, fault |-> "none"]

Idle == [pc |-> "idle", req |-> NoReq, res |-> NewRes(<<>>)]

Extensions ==
    { [on |-> FALSE, list |-> <<>>],
      [on |-> TRUE, list |-> << <<"j">>, <<"h">> >>],
      [on |-> TRUE, list |-> << <<"h">>, <<"j">> >>],
      [on |-> TRUE, list |-> << <<"j">>, <<".", ".", "/", "h">> >>],
      [on |-> TRUE, list |-> << <<"\\", "h">> >>] }

\* every value of StaticOptions (static.ts:11-20)
StaticOptions ==
    [fallthrough : BOOLEAN, dotfiles : {"allow", "ignore", "deny"}, etag : BOOLEAN,
     extensions : Extensions, index : {<<>>, <<"i">>}, maxAge : {0}, redirect : BOOLEAN]

\* the options index.ts:758-765 passes: fallthrough and redirect keep their defaults
ServerOptions == {o \in StaticOptions : o.fallthrough /\ o.redirect}

---------------------------------------------------------------------------
(* Actions *)

\* where the request stands once the synchronous part of its handler returned
Settle(r, req, x) ==
    \/ /\ x.ctl = "ret"
       /\ reqs' = [reqs EXCEPT ![r] = [pc |-> "done", req |-> req, res |-> x]]
       /\ UNCHANGED crashed
    \/ /\ x.ctl = "await"
       /\ reqs' = [reqs EXCEPT ![r] = [pc |-> "readdir", req |-> req, res |-> x]]
       /\ UNCHANGED crashed
    \/ /\ x.ctl = "throw"     \* an exception leaves the request listener
       /\ reqs' = [reqs EXCEPT ![r] = [pc |-> "failed", req |-> req, res |-> x]]
       /\ crashed' = TRUE
    \/ /\ x.ctl = "reject"    \* unhandled rejection: the process exits ...
       /\ reqs' = [reqs EXCEPT ![r] = [pc |-> "failed", req |-> req, res |-> x]]
       /\ crashed' = TRUE
    \/ /\ x.ctl = "reject"    \* ... or only warns, and the response never ends
       /\ reqs' = [reqs EXCEPT ![r] = [pc |-> "hung", req |-> req, res |-> x]]
       /\ UNCHANGED crashed

Booting == [phase |-> "load", err |-> NoErr]

\* index.ts:635-654 and 758-765: the module builds ROUTES, then the static
\* handler; an error thrown by either ends the process before ex.listen
Startup ==
    /\ boot.phase = "load"
    /\ \E c \in {compileRoutes(ROUTES_FILE, 1, <<>>)} :
          IF c.err # NoErr
          THEN /\ boot' = [phase |-> "failed", err |-> c.err]
               /\ crashed' = TRUE
               /\ UNCHANGED ROUTES
          ELSE IF traversal(opts)
          THEN /\ boot' = [phase |-> "failed", err |-> TraversalError]
               /\ crashed' = TRUE
               /\ ROUTES' = c.table
          ELSE /\ boot' = [phase |-> "up", err |-> NoErr]
               /\ ROUTES' = c.table
               /\ UNCHANGED crashed
    /\ UNCHANGED <<ROUTES_FILE, forced, opts, fs, reqs, served, rtPath, rtOut>>

\* index.ts:886-935: a request arrives and genHandler runs
Request(r) ==
    /\ ~crashed
    /\ boot.phase = "up"
    /\ reqs[r].pc = "idle"
    /\ served < MaxServed
    /\ \E req \in Requests :
          \E x \in {genHandler(opts, fs, ROUTES, req, NewRes(req.url))} : Settle(r, req, x)
    /\ served' = served + 1
    /\ UNCHANGED <<ROUTES_FILE, boot, forced, ROUTES, opts, fs, rtPath, rtOut>>

\* the directory fileHandler lists
listKey(x) == Key(<<".">> \o decodeURI(x.lpath))

\* index.ts:815: readdir settles
Readdir(r) ==
    LET x == reqs[r].res
        k == listKey(x)
        ok == reqs[r].req.fault # "readdir" /\ k \in DOMAIN fs /\ fs[k].kind = "dir"
    IN /\ ~crashed
       /\ reqs[r].pc = "readdir"
       /\ IF ok
          THEN /\ reqs' = [reqs EXCEPT ![r].pc = "stat",
                                       ![r].res = [x EXCEPT !.plist = listNames(fs, k)]]
               /\ UNCHANGED crashed
          ELSE \E y \in {[throw(x, "Error", 0) EXCEPT !.ctl = "reject"]} :
                  Settle(r, reqs[r].req, y)
       /\ UNCHANGED <<ROUTES_FILE, boot, forced, ROUTES, opts, fs, served, rtPath, rtOut>>

\* index.ts:817-842: the stats settle and the listing is sent
Stat(r) ==
    LET x == reqs[r].res
        k == listKey(x)
        ok == /\ \A n \in x.plist : Append(k, n) \in DOMAIN fs
              /\ (x.plist # {} => reqs[r].req.fault # "stat")
        x1 == IF x.plist = {} THEN x ELSE ev(x, "stat")
    IN /\ ~crashed
       /\ reqs[r].pc = "stat"
       /\ \E y \in {IF ok THEN listing(opts, reqs[r].req, x1, x.lpath, flist(fs, k, x.plist))
                      ELSE [throw(x1, "Error", 0) EXCEPT !.ctl = "reject"]} :
             Settle(r, reqs[r].req, y)
       /\ UNCHANGED <<ROUTES_FILE, boot, forced, ROUTES, opts, fs, served, rtPath, rtOut>>

\* the response's 'close' event: the exchange is over
Close(r) ==
    /\ ~crashed
    /\ reqs[r].pc = "done"
    /\ reqs' = [reqs EXCEPT ![r] = Idle]
    /\ forced' = IF reqs[r].res.localsFs /\ reqs[r].res.body.kind = "listing"
                 THEN forced \cup {listKey(reqs[r].res)} ELSE forced
    /\ UNCHANGED <<ROUTES_FILE, boot, ROUTES, opts, fs, served, crashed, rtPath, rtOut>>

Init ==
    /\ ROUTES_FILE = Routes0File
    /\ boot = Booting
    /\ forced = {}
    /\ ROUTES = <<>>
    /\ opts \in ServerOptions
    /\ fs = FS0
    /\ reqs = [r \in {1} |-> Idle]
    /\ served = 0
    /\ crashed = FALSE
    /\ rtPath = <<>>
    /\ rtOut = NoCall

Next ==
    \/ Startup
    \/ \E r \in DOMAIN reqs : Request(r)
    \/ \E r \in DOMAIN reqs : Readdir(r)
    \/ \E r \in DOMAIN reqs : Stat(r)
    \/ \E r \in DOMAIN reqs : Close(r)

\* the server as index.ts configures it
Spec == Init /\ [][Next]_vars

\* the static resolver under every value of its options
InitStatic ==
    /\ ROUTES_FILE = Routes0File
    /\ boot = Booting
    /\ forced = {}
    /\ ROUTES = <<>>
    /\ opts \in StaticOptions
    /\ fs = FS0
    /\ reqs = [r \in {1} |-> Idle]
    /\ served = 0
    /\ crashed = FALSE
    /\ rtPath = <<>>
    /\ rtOut = NoCall

SpecStatic == InitStatic /\ [][Next]_vars

\* the server with and without fallthrough, so that every way a response
\* ends occurs: redirect, file, 304, listing, 403, 404 and 500 page, 406
InitPaths ==
    /\ ROUTES_FILE = Routes0File
    /\ boot = Booting
    /\ forced = {}
    /\ ROUTES = <<>>
    /\ opts \in {o \in StaticOptions :
                    /\ o.etag /\ o.redirect
                    /\ o.extensions.list \in {<<>>, << <<"j">>, <<"h">> >>}}
    /\ fs = FS0
    /\ reqs = [r \in {1} |-> Idle]
    /\ served = 0
    /\ crashed = FALSE
    /\ rtPath = <<>>
    /\ rtOut = NoCall

SpecPaths == InitPaths /\ [][Next]_vars

---------------------------------------------------------------------------
(* The handler static() returns, called by itself: its next only records *)

\* static.ts:51-109 does not read the Accept header
StaticRequests == {q \in Requests : ~q.accept.present}

\* static.ts:51: handler(req, res, next); pc "static" once it returned or
\* threw, and an error that is no StaticError (static.ts:107) ends the process
StaticCall(r) ==
    /\ ~crashed
    /\ boot.phase = "up"
    /\ reqs[r].pc = "idle"
    /\ served < MaxServed
    /\ \E req \in StaticRequests :
          \E x \in {static(opts, fs, req, NewRes(req.url))} :
             /\ reqs' = [reqs EXCEPT ![r] = [pc |-> "static", req |-> req, res |-> x]]
             /\ crashed' = (x.ctl = "throw")
    /\ served' = served + 1
    /\ UNCHANGED <<ROUTES_FILE, boot, forced, ROUTES, opts, fs, rtPath, rtOut>>

NextHandler == Startup \/ \E r \in DOMAIN reqs : StaticCall(r)

SpecHandler == InitStatic /\ [][NextHandler]_vars

---------------------------------------------------------------------------
(* Two requests in flight: the handlers interleave at readdir and stat *)

\* the requests of two clients, on a file tree that stays as it is
ConcRequests ==
    {q \in Requests :
        /\ q.method = "GET" /\ q.fault = "none" /\ q.inm = <<>>
        /\ q.accept.ranges \in {<<>>, <<"json">>}
        /\ q.url \in { <<"/">>, <<"/", "d", "/">>, <<"/", "/", "d", "/">>, <<"/", "p">>,
                       <<"/", "x">>, <<"/", "o", "/", "x">>, <<"/", "favicon.ico">>,
                       <<"/", "p", ".", "j", "/">>, <<"/", "%">> }}

InitConc ==
    /\ ROUTES_FILE = Routes0File
    /\ boot = Booting
    /\ forced = {}
    /\ ROUTES = <<>>
    /\ opts \in {o \in ServerOptions : o.dotfiles = "ignore" /\ o.etag
                                        /\ o.extensions.list = << <<"j">>, <<"h">> >>}
    /\ fs = FS0
    /\ reqs = [r \in {1, 2} |-> Idle]
    /\ served = 0
    /\ crashed = FALSE
    /\ rtPath = <<>>
    /\ rtOut = NoCall

\* index.ts:886-935: a request arrives while another may be suspended
ConcRequest(r) ==
    /\ ~crashed
    /\ boot.phase = "up"
    /\ reqs[r].pc = "idle"
    /\ served < MaxServed
    /\ \E req \in ConcRequests :
          \E x \in {genHandler(opts, fs, ROUTES, req, NewRes(req.url))} : Settle(r, req, x)
    /\ served' = served + 1
    /\ UNCHANGED <<ROUTES_FILE, boot, forced, ROUTES, opts, fs, rtPath, rtOut>>

NextConc ==
    \/ Startup
    \/ \E r \in DOMAIN reqs : ConcRequest(r)
    \/ \E r \in DOMAIN reqs : Readdir(r)
    \/ \E r \in DOMAIN reqs : Stat(r)
    \/ \E r \in DOMAIN reqs : Close(r)

SpecConc == InitConc /\ [][NextConc]_vars

---------------------------------------------------------------------------
(* A file that changes between two requests for it *)

Sizes == {1, 17}
Mtimes == {1, 17}

\* requests for the index file i of the root, for p.h and for the favicon
EtagRequests ==
    {q \in Requests :
        /\ q.method = "GET" /\ q.fault = "none" /\ ~q.accept.present
        /\ q.url \in {<<"/">>, <<"/", "p">>, <<"/", "favicon.ico">>}}

InitEtag ==
    /\ ROUTES_FILE = Routes0File
    /\ boot = Booting
    /\ forced = {}
    /\ ROUTES = <<>>
    /\ opts \in {o \in ServerOptions : /\ o.etag /\ o.dotfiles = "ignore" /\ o.index # <<>>
                                        /\ o.extensions.list = << <<"h">>, <<"j">> >>}
    /\ fs = FS0
    /\ reqs = [r \in {1, 2} |-> Idle]
    /\ served = 0
    /\ crashed = FALSE
    /\ rtPath = <<>>
    /\ rtOut = NoCall

\* index.ts:886-935: a request for the file; the exchange stays on record
EtagRequest(r) ==
    /\ ~crashed
    /\ boot.phase = "up"
    /\ reqs[r].pc = "idle"
    /\ served < MaxServed
    /\ \E req \in EtagRequests :
          \E x \in {genHandler(opts, fs, ROUTES, req, NewRes(req.url))} : Settle(r, req, x)
    /\ served' = served + 1
    /\ UNCHANGED <<ROUTES_FILE, boot, forced, ROUTES, opts, fs, rtPath, rtOut>>

\* somebody rewrites the file i: its size and modification time change
Touch ==
    /\ \E size \in Sizes, mtime \in Mtimes :
          /\ File(size, mtime) # fs[<<<<"i">>>>]
          /\ fs' = [fs EXCEPT ![<<<<"i">>>>] = File(size, mtime)]
    /\ UNCHANGED <<ROUTES_FILE, boot, forced, ROUTES, opts, reqs, served, crashed,
                   rtPath, rtOut>>

NextEtag ==
    \/ Startup
    \/ \E r \in DOMAIN reqs : EtagRequest(r)
    \/ Touch

SpecEtag == InitEtag /\ [][NextEtag]_vars

---------------------------------------------------------------------------
(* Requests with the '//' marker, under route files that name such paths *)

\* the GET requests whose path begins with '//'
MarkerRequests ==
    {q \in Requests : q.method = "GET" /\ startsWith(getPath(q.url), <<"/", "/">>)}

\* route files: Routes0File, and two whose first rule matches every '//'
\* path: '// > /z' and '/ : /i'
MarkerRouteFiles ==
    { Routes0File,
      << <<"/", "/", " ", ">", " ", "/", "z">> >> \o Routes0File,
      << <<"/", " ", ":", " ", "/", "i">> >> }

InitMarker ==
    /\ ROUTES_FILE \in MarkerRouteFiles
    /\ boot = Booting
    /\ forced = {}
    /\ ROUTES = <<>>
    /\ opts \in {o \in ServerOptions : o.etag}
    /\ fs = FS0
    /\ reqs = [r \in {1} |-> Idle]
    /\ served = 0
    /\ crashed = FALSE
    /\ rtPath = <<>>
    /\ rtOut = NoCall

\* index.ts:886-935: a request with the marker arrives and genHandler runs
MarkerRequest(r) ==
    /\ ~crashed
    /\ boot.phase = "up"
    /\ reqs[r].pc = "idle"
    /\ served < MaxServed
    /\ \E req \in MarkerRequests :
          \E x \in {genHandler(opts, fs, ROUTES, req, NewRes(req.url))} : Settle(r, req, x)
    /\ served' = served + 1
    /\ UNCHANGED <<ROUTES_FILE, boot, forced, ROUTES, opts, fs, rtPath, rtOut>>

NextMarker ==
    \/ Startup
    \/ \E r \in DOMAIN reqs : MarkerRequest(r)
    \/ \E r \in DOMAIN reqs : Readdir(r)
    \/ \E r \in DOMAIN reqs : Stat(r)
    \/ \E r \in DOMAIN reqs : Close(r)

SpecMarker == InitMarker /\ [][NextMarker]_vars

---------------------------------------------------------------------------
(* The status ticker and the 'close' events: index.ts:709-721, 742-749 *)

TickerRequests ==
    {q \in Requests :
        /\ q.method = "GET" /\ q.fault = "none" /\ q.inm = <<>> /\ ~q.accept.present
        /\ q.url \in {<<"/">>, <<"/", "d", "/">>, <<"/", "x">>, <<"/", "o", "/", "x">>}}

InitTicker ==
    /\ ROUTES_FILE = Routes0File
    /\ boot = Booting
    /\ forced = {}
    /\ ROUTES = <<>>
    /\ opts \in {o \in ServerOptions : /\ o.dotfiles = "ignore" /\ o.etag
                                        /\ o.extensions.list = << <<"j">>, <<"h">> >>}
    /\ fs = FS0
    /\ reqs = [r \in {1, 2} |-> Idle]
    /\ served = 0
    /\ crashed = FALSE
    /\ rtPath = <<>>
    /\ rtOut = NoCall

\* index.ts:886-935: a request arrives and genHandler runs
TickerRequest(r) ==
    /\ ~crashed
    /\ boot.phase = "up"
    /\ reqs[r].pc = "idle"
    /\ served < MaxServed
    /\ \E req \in TickerRequests :
          \E x \in {genHandler(opts, fs, ROUTES, req, NewRes(req.url))} : Settle(r, req, x)
    /\ served' = served + 1
    /\ UNCHANGED <<ROUTES_FILE, boot, forced, ROUTES, opts, fs, rtPath, rtOut>>

\* the IncomingMessage is closed (the request is over, or the client is
\* gone): req.closed is true from now on
ReqClosed(r) ==
    /\ ~crashed
    /\ reqs[r].pc # "idle"
    /\ ~reqs[r].res.closed
    /\ reqs' = [reqs EXCEPT ![r].res.closed = TRUE]
    /\ UNCHANGED <<ROUTES_FILE, boot, forced, ROUTES, opts, fs, served, crashed,
                   rtPath, rtOut>>

\* res emits 'close' (the response is through, or the client is gone); the
\* listener of index.ts:742-749, if reqLog has registered it, takes the
\* entry, deletes it and hands it to updateStatus, whose parameter
\* [col, row] throws TypeError on undefined
ResClose(r) ==
    LET x == reqs[r].res
    IN /\ ~crashed
       /\ reqs[r].pc # "idle"
       /\ ~x.closeEmitted
       /\ reqs' = [reqs EXCEPT ![r].res =
                      IF x.onClose
                      THEN [x EXCEPT !.closeEmitted = TRUE, !.pending = FALSE,
                                     !.found = IF x.pending THEN "entry" ELSE "undefined"]
                      ELSE [x EXCEPT !.closeEmitted = TRUE]]
       /\ crashed' = (x.onClose /\ ~x.pending)
       /\ UNCHANGED <<ROUTES_FILE, boot, forced, ROUTES, opts, fs, served, rtPath, rtOut>>

\* index.ts:709-721: the ticker deletes the entries of closed requests
Tick ==
    /\ ~crashed
    /\ boot.phase = "up"
    /\ reqs' = [r \in DOMAIN reqs |->
                  IF reqs[r].res.pending /\ reqs[r].res.closed
                  THEN [reqs[r] EXCEPT !.res.pending = FALSE, !.res.swept = TRUE]
                  ELSE reqs[r]]
    /\ UNCHANGED <<ROUTES_FILE, boot, forced, ROUTES, opts, fs, served, crashed,
                   rtPath, rtOut>>

NextTicker ==
    \/ Startup
    \/ \E r \in DOMAIN reqs : TickerRequest(r)
    \/ \E r \in DOMAIN reqs : Readdir(r)
    \/ \E r \in DOMAIN reqs : Stat(r)
    \/ \E r \in DOMAIN reqs : ReqClosed(r)
    \/ \E r \in DOMAIN reqs : ResClose(r)
    \/ Tick

SpecTicker == InitTicker /\ [][NextTicker]_vars

---------------------------------------------------------------------------
(* route() alone, over route tables and paths *)

\* /o/ > /n/   /o/x > /z   /o/ : /d//   & /O/ = /e/   && /O/ : /w/   /r/ : /d/
\* /o/ > /$&   &&/api/ : /v2/
RuleUniverse ==
    { Rule("", <<"/", "o", "/">>, ">", <<"/", "n", "/">>),
      Rule("", <<"/", "o", "/", "x">>, ">", <<"/", "z">>),
      Rule("", <<"/", "o", "/">>, ":", <<"/", "d", "/", "/">>),
      Rule("&", <<"/", "O", "/">>, "=", <<"/", "e", "/">>),
      Rule("&&", <<"/", "O", "/">>, ":", <<"/", "w", "/">>),
      Rule("", <<"/", "r", "/">>, ":", <<"/", "d", "/">>),
      Rule("", <<"/", "o", "/">>, ">", <<"/", "$", "&">>),
      Rule("&&", <<"/", "a", "p", "i", "/">>, ":", <<"/", "v", "2", "/">>) }

\* the lines of route files: the rules above, a blank line, a comment, and
\* malformed lines: ' /o /n # c', '&/o > /n', '&&/api/ := /v2/'
RouteLines ==
    { <<"/", "o", "/", " ", ">", " ", "/", "n", "/">>,
      <<"/", "o", "/", "x", " ", ">", " ", "/", "z">>,
      <<"/", "o", "/", " ", ":", " ", "/", "d", "/", "/">>,
      <<"&", " ", "/", "O", "/", " ", "=", " ", "/", "e", "/">>,
      <<"&", "&", " ", "/", "O", "/", " ", ":", " ", "/", "w", "/">>,
      <<"/", "r", "/", " ", ":", " ", "/", "d", "/">>,
      <<>>,
      <<" ", "#", " ", "c">>,
      <<" ", "/", "o", " ", "/", "n", " ", "#", " ", "c">>,
      <<"&", "/", "o", " ", ">", " ", "/", "n">>,
      <<"&", "&", "/", "a", "p", "i", "/", " ", ":", "=", " ", "/", "v", "2", "/">>,
      <<"/", "o", "/", " ", ">", " ", "/", "$", "&">>,
      <<"&", "&", "/", "a", "p", "i", "/", " ", ":", " ", "/", "v", "2", "/">> }

RouteFiles == UNION {[1..n -> RouteLines] : n \in 0..MaxRules}

RouteTables == UNION {[1..n -> RuleUniverse] : n \in 0..MaxRules}

RoutePaths ==
    { <<"/", "o", "/", "x">>, <<"/", "O", "/", "x">>, <<"/", "o", "/">>, <<"/", "o">>,
      <<"/", "r", "/", "/">>, <<"/", "q">>, <<"/", "o", "/", "/">>, <<"/">>,
      <<"/", "A", "P", "I", "/", "f", "o", "o">> }

InitRoute ==
    /\ ROUTES_FILE \in RouteFiles
    /\ boot = Booting
    /\ forced = {}
    /\ ROUTES = <<>>
    /\ opts \in {o \in ServerOptions : o.dotfiles = "ignore" /\ o.etag
                                        /\ ~o.extensions.on /\ o.index # <<>>}
    /\ fs = FS0
    /\ reqs = [r \in {1} |-> Idle]
    /\ served = 0
    /\ crashed = FALSE
    /\ rtPath = <<>>
    /\ rtOut = NoCall

\* index.ts:777: a call of route
RouteCall ==
    /\ boot.phase = "up"
    /\ \E p \in RoutePaths :
          /\ rtPath' = p
          /\ rtOut' = <<route(ROUTES, p)>>
    /\ UNCHANGED <<ROUTES_FILE, boot, forced, ROUTES, opts, fs, reqs, served, crashed>>

NextRoute == Startup \/ RouteCall

SpecRoute == InitRoute /\ [][NextRoute]_vars

---------------------------------------------------------------------------
(* Properties of route() *)

\* the requirement of rule r matches path p
reqMatches(r, p) ==
    IF r.g.q # ""
    THEN reTest(SubSeq(r.g.req, 1, Len(r.g.req) - 1), p, r.g.q = "&")
    ELSE startsWith(p, r.g.req)

\* what rule r alone makes of a path it matches
outcome(r, p) == <<r.redirect, collapseTrailing(try(r, p)[1])>>

matching(T, p) == {i \in 1..Len(T) : reqMatches(T[i], p)}

\* C1: route(path) returns the outcome (redirect flag, new path) of the first
\* rule, in route-file order, whose requirement matches path; a later rule
\* that matches too, with another outcome, has no say.
C1_FirstMatchWins ==
    rtOut # NoCall =>
        \A i \in matching(ROUTES, rtPath) :
            (\A j \in matching(ROUTES, rtPath) : i <= j)
                => rtOut[1] = outcome(ROUTES[i], rtPath)

\* two rules match the path with different outcomes and route was called
C1_Witness ==
    /\ rtOut # NoCall
    /\ \E i, j \in matching(ROUTES, rtPath) :
          /\ i < j
          /\ outcome(ROUTES[i], rtPath) # outcome(ROUTES[j], rtPath)
          /\ rtOut[1] = outcome(ROUTES[i], rtPath)

---------------------------------------------------------------------------
(* Properties of request handling *)

Q(r) == reqs[r].req
X(r) == reqs[r].res

\* the synchronous part of the handler of r has run
Ran(r) == reqs[r].pc # "idle"

\* the response of r was finalized
Answered(r) == reqs[r].pc = "done"

Has(x, e) == \E i \in 1..Len(x.tr) : x.tr[i] = e

\* no existsSync, statSync/stat, readdir or createReadStream for the request
NoFsCall(x) == \A i \in 1..Len(x.tr) : x.tr[i] \notin {"exists", "stat", "readdir", "open"}

\* the path of the request, as route() receives it
ReqPath(r) == encodeURI(decodeURI(getPath(Q(r).url)))

\* a GET request whose path decodes
Get(r) == Ran(r) /\ Q(r).method = "GET" /\ ~decodeThrows(getPath(Q(r).url))

Marker(r) == startsWith(getPath(Q(r).url), <<"/", "/">>)

\* the first rule, in file order, whose requirement matches p
FirstMatch(p) ==
    {i \in matching(ROUTES, p) : \A j \in matching(ROUTES, p) : i <= j}

\* the path after route rewriting
RoutedPath(r) ==
    IF FirstMatch(ReqPath(r)) = {} THEN ReqPath(r)
    ELSE outcome(ROUTES[CHOOSE i \in FirstMatch(ReqPath(r)) : TRUE], ReqPath(r))[2]

RedirectRule(r) == \E i \in FirstMatch(ReqPath(r)) : ROUTES[i].redirect

\* a GET request that reaches the static resolver
Resolved(r) == Get(r) /\ ~Marker(r) /\ ~RedirectRule(r)

\* some segment of path u starts with '.'
HasDotSegment(u) ==
    LET segs == segsFrom(u, 1, <<>>, <<>>)
    IN \E i \in 1..Len(segs) : Len(segs[i]) > 0 /\ segs[i][1] = "."

\* the client accepts html, json or text
AcceptsPage(r) ==
    \/ ~Q(r).accept.present
    \/ \E i \in 1..Len(Q(r).accept.ranges) :
          Q(r).accept.ranges[i] \in {"html", "json", "text", "*"}

\* C2: a GET request whose path matches a redirect rule is answered 302 with
\* the rewritten path as its Location, and no file system call is made for it.
C2_RedirectToRewrittenPath ==
    \A r \in DOMAIN reqs :
        Get(r) /\ RedirectRule(r) =>
            /\ Answered(r)
            /\ X(r).statusCode = 302
            /\ X(r).hLocation # <<>>
            /\ getPath(X(r).hLocation[1]) = RoutedPath(r)
            /\ NoFsCall(X(r))

\* C3: under dotfiles = deny every GET request no route rule redirects, with a
\* dot segment in its path and a client accepting html, json or text, ends 403
\* whether or not the path exists, before any file system existence check.
C3_DenyAlways403 ==
    \A r \in DOMAIN reqs :
        (/\ opts.dotfiles = "deny"
         /\ Get(r) /\ ~(~Marker(r) /\ RedirectRule(r))
         /\ HasDotSegment(decodeURI(getPath(Q(r).url)))
         /\ AcceptsPage(r))
        => Answered(r) /\ X(r).statusCode = 403 /\ NoFsCall(X(r))

\* The dotfile check of the static resolver: under dotfiles = deny a request
\* that reaches the resolver with a dot segment in its rewritten path ends 403
\* without a file system call.
DenyResolved403 ==
    \A r \in DOMAIN reqs :
        (/\ opts.dotfiles = "deny"
         /\ Resolved(r)
         /\ HasDotSegment(RoutedPath(r))
         /\ AcceptsPage(r))
        => Answered(r) /\ X(r).statusCode = 403 /\ NoFsCall(X(r))

\* the path the static resolver receives for request r
StaticPath(r) == <<".">> \o X(r).url

\* the dotfile policy stops the request before any lookup
DotBlocked(r) == HasDotSegment(X(r).url) /\ opts.dotfiles # "allow"

\* positions of the extensions for which <path>.<ext> exists
ExistingExt(r) ==
    {i \in 1..Len(opts.extensions.list) :
        existsSync(fs, StaticPath(r) \o <<".">> \o opts.extensions.list[i])}

\* the file the resolution order of the static resolver selects, if any
Target(r) ==
    LET path == StaticPath(r)
        slashed == IF opts.redirect /\ ~endsWith(path, <<"/">>)
                   THEN path \o <<"/">> ELSE path
    IN IF DotBlocked(r) THEN <<>>
       ELSE IF existsSync(fs, path)
       THEN IF fs[Key(path)].kind = "file" THEN <<Key(path)>>
            ELSE IF /\ opts.index # <<>>
                    /\ existsSync(fs, slashed \o opts.index)
                    /\ fs[Key(slashed \o opts.index)].kind = "file"
                 THEN <<Key(slashed \o opts.index)>>
                 ELSE <<>>
       ELSE IF opts.extensions.on /\ ExistingExt(r) # {}
       THEN <<Key(path \o <<".">> \o opts.extensions.list[
                  CHOOSE i \in ExistingExt(r) : \A j \in ExistingExt(r) : i <= j])>>
       ELSE <<>>

\* the response carries file k: its type and length headers, and either its
\* content or a 304 for it
ServesFile(x, k) ==
    /\ x.hLen = <<LenOfStats(fs[k])>>
    /\ \/ x.statusCode = 200 /\ x.body.kind = "file" /\ x.body.file = k
       \/ x.statusCode = 304 /\ x.body.kind = "empty"

\* C4: when the exact path does not exist and extensions is a non-empty list,
\* the file served is <path>.<ext> for the first extension, in list order, for
\* which that file exists.
C4_FirstExistingExtension ==
    \A r \in DOMAIN reqs :
        (/\ Resolved(r) /\ Q(r).fault # "stat" /\ ~DotBlocked(r)
         /\ ~existsSync(fs, StaticPath(r))
         /\ opts.extensions.on)
        => \A i \in ExistingExt(r) :
              (\A j \in ExistingExt(r) : i <= j) =>
                  /\ Answered(r)
                  /\ ServesFile(X(r), Key(StaticPath(r) \o <<".">> \o opts.extensions.list[i]))
                  /\ X(r).hType =
                        <<lookup(StaticPath(r) \o <<".">> \o opts.extensions.list[i])>>

\* two extensions of the list have a file, and the earlier one was sent
C4_Witness ==
    \E r \in DOMAIN reqs :
        /\ Resolved(r) /\ ~existsSync(fs, StaticPath(r)) /\ opts.extensions.on
        /\ Cardinality(ExistingExt(r)) >= 2
        /\ Answered(r) /\ X(r).statusCode = 200
        /\ \E i \in ExistingExt(r) :
              /\ \A j \in ExistingExt(r) : i <= j
              /\ X(r).body.file = Key(StaticPath(r) \o <<".">> \o opts.extensions.list[i])
              /\ fs[X(r).body.file].size # fs[Key(StaticPath(r) \o <<".">>
                        \o opts.extensions.list[CHOOSE j \in ExistingExt(r) : j # i])].size

\* C5: a GET request that resolves to an existing file, with etag enabled and
\* an If-None-Match equal to the ETag of that file, is answered 304 with no
\* body; ETag and Cache-Control are set and the file is never opened.
C5_NotModified ==
    \A r \in DOMAIN reqs :
        (/\ Resolved(r) /\ Q(r).fault # "stat" /\ opts.etag
         /\ Target(r) # <<>>
         /\ Q(r).inm = <<etagOf(fs[Target(r)[1]])>>)
        => /\ Answered(r)
           /\ X(r).statusCode = 304
           /\ X(r).body.kind = "empty"
           /\ ~Has(X(r), "open")
           /\ X(r).hEtag = <<etagOf(fs[Target(r)[1]])>>
           /\ X(r).hCache = <<opts.maxAge>>

\* a conditional request for a file found by the resolver was answered 304
C5_Witness ==
    \E r \in DOMAIN reqs :
        /\ Resolved(r) /\ opts.etag /\ Target(r) # <<>>
        /\ Q(r).inm = <<etagOf(fs[Target(r)[1]])>>
        /\ Answered(r) /\ X(r).statusCode = 304

\* the file a response with a validator is about
Validated(r) ==
    IF Resolved(r) /\ Target(r) # <<>> THEN Target(r)[1] ELSE FaviconKey

\* C6: a 304 is sent only when If-None-Match is present and equal to the
\* computed ETag; a file request without the header, or with another value,
\* gets the file content with status 200.
C6_NotModifiedOnlyOnMatch ==
    \A r \in DOMAIN reqs :
        Ran(r) =>
            /\ X(r).statusCode = 304 =>
                  /\ Q(r).inm # <<>>
                  /\ Q(r).inm = <<etagOf(fs[Validated(r)])>>
                  /\ X(r).hEtag = Q(r).inm
            /\ (/\ Resolved(r) /\ Q(r).fault # "stat" /\ Target(r) # <<>>
                /\ Q(r).inm # <<etagOf(fs[Target(r)[1]])>>)
               => /\ Answered(r)
                  /\ X(r).statusCode = 200
                  /\ X(r).body.kind = "file"
                  /\ X(r).body.file = Target(r)[1]
                  /\ Has(X(r), "open")

\* a request with a stale If-None-Match got the file with status 200
C6_Witness ==
    \E r \in DOMAIN reqs :
        /\ Resolved(r) /\ opts.etag /\ Target(r) # <<>>
        /\ Q(r).inm # <<>> /\ Q(r).inm # <<etagOf(fs[Target(r)[1]])>>
        /\ Answered(r) /\ X(r).statusCode = 200
        /\ X(r).body.file = Target(r)[1] /\ X(r).hEtag # <<>>

\* C7: an unexpected failure while handling a request (a file system call
\* that throws) ends that request with status 500 and a console.error line
\* naming its method and decoded URL, and the server keeps running.
C7_UnexpectedFailure500 ==
    \A r \in DOMAIN reqs :
        Ran(r) /\ X(r).exc.kind = "Error" =>
            /\ ~crashed
            /\ reqs[r].pc # "hung"
            /\ Answered(r) =>
                  /\ X(r).statusCode = 500
                  /\ X(r).errLog = <<Q(r).method, decodeURI(X(r).url)>>

\* the static resolver serves nothing for the request by policy or absence
PolicyMiss(r) ==
    \/ DotBlocked(r)
    \/ /\ ~existsSync(fs, StaticPath(r))
       /\ ~(opts.extensions.on /\ ExistingExt(r) # {})

\* C8: a request the static resolver declines (a path that does not exist, a
\* dotfile the policy hides) is never answered 500 and is not handled by the
\* error handler.
C8_PolicyMissNever500 ==
    \A r \in DOMAIN reqs :
        Resolved(r) /\ PolicyMiss(r) =>
            X(r).statusCode # 500 /\ ~Has(X(r), "errorHandler")

\* C9: with redirect enabled, a GET path without a trailing slash that names
\* an existing directory is answered 302 to the same path with '/' appended.
C9_DirectoryRedirect ==
    \A r \in DOMAIN reqs :
        (/\ Resolved(r) /\ opts.redirect /\ Q(r).fault = "none"
         /\ ~endsWith(X(r).url, <<"/">>)
         /\ existsSync(fs, StaticPath(r)) /\ fs[Key(StaticPath(r))].kind = "dir")
        => /\ Answered(r)
           /\ X(r).statusCode = 302
           /\ X(r).hLocation = <<X(r).url \o <<"/">>>>

\* the request names an existing directory with a trailing '/'
NamesDirectory(r) ==
    /\ endsWith(X(r).url, <<"/">>)
    /\ existsSync(fs, StaticPath(r))
    /\ fs[Key(StaticPath(r))].kind = "dir"

\* <directory>/<index> exists
IndexExists(r) ==
    opts.index # <<>> /\ existsSync(fs, StaticPath(r) \o opts.index)

\* the entries of directory k that a listing shows
Listed(k) ==
    {n \in readdir(fs, k) : n[1] # "."}

\* the response is the listing of the directory the request names
IsListing(r) ==
    /\ X(r).statusCode = 200
    /\ X(r).body.kind = "listing"
    /\ {e.name : e \in X(r).body.entries} =
         {IF fs[Append(Key(StaticPath(r)), n)].kind = "dir" THEN n \o <<"/">> ELSE n :
             n \in Listed(Key(StaticPath(r)))}

\* the listing is still being read from the file system
Listing(r) == reqs[r].pc \in {"readdir", "stat"}

\* C10: a GET request without the '//' marker whose path ends in '/' and names
\* an existing directory is answered with the index file, status 200, when the
\* index option is set and <directory>/<index> exists, and with the listing of
\* the directory, status 200, otherwise.
C10_IndexOrListing ==
    \A r \in DOMAIN reqs :
        Resolved(r) /\ Q(r).fault = "none" /\ NamesDirectory(r) =>
            IF IndexExists(r)
            THEN /\ Answered(r)
                 /\ X(r).statusCode = 200
                 /\ X(r).body.kind = "file"
                 /\ X(r).body.file = Key(StaticPath(r) \o opts.index)
            ELSE Listing(r) \/ (Answered(r) /\ IsListing(r))

\* What directory requests do get: the index file with status 200, or 304
\* without a body when etag is enabled and If-None-Match equals its ETag;
\* without an index file and without a dot segment in the path, the listing
\* with status 200 when the client accepts html, json or text and 406 when it
\* does not.
DirectoryIndexOrListing ==
    \A r \in DOMAIN reqs :
        (/\ Resolved(r) /\ Q(r).fault = "none" /\ NamesDirectory(r)
         /\ decodeURI(X(r).url) = X(r).url /\ ~DotBlocked(r))
        => IF IndexExists(r) /\ fs[Key(StaticPath(r) \o opts.index)].kind = "file"
           THEN /\ Answered(r)
                /\ IF opts.etag /\ Q(r).inm =
                          <<etagOf(fs[Key(StaticPath(r) \o opts.index)])>>
                   THEN X(r).statusCode = 304 /\ X(r).body.kind = "empty"
                   ELSE /\ X(r).statusCode = 200
                        /\ X(r).body.kind = "file"
                        /\ X(r).body.file = Key(StaticPath(r) \o opts.index)
           ELSE ~IndexExists(r) /\ ~HasDotSegment(X(r).url) =>
                \/ Listing(r)
                \/ /\ Answered(r)
                   /\ IF AcceptsPage(r) THEN IsListing(r)
                      ELSE X(r).statusCode = 406 /\ X(r).body.kind = "unsupported"

---------------------------------------------------------------------------
(* Properties of the '//' marker, negotiation, start-up and listings *)

\* the directory a request addresses
Addressed(r) == Key(<<".">> \o decodeURI(getPath(Q(r).url)))

\* the request addresses an existing directory that holds the index file
DirectoryWithIndex(r) ==
    /\ Addressed(r) \in DOMAIN fs
    /\ fs[Addressed(r)].kind = "dir"
    /\ opts.index # <<>>
    /\ Addressed(r) \o <<opts.index>> \in DOMAIN fs
    /\ fs[Addressed(r) \o <<opts.index>>].kind = "file"

\* the answer is the index file of the directory addressed
IsIndexFile(r) ==
    /\ Answered(r)
    /\ X(r).statusCode = 200
    /\ X(r).body.kind = "file"
    /\ X(r).body.file = Addressed(r) \o <<opts.index>>

\* C11: a GET request whose path begins with '//' and addresses an existing
\* directory holding the index file is answered with the listing of that
\* directory, not the index file; a later request for the same directory
\* without the marker is answered with the index file.
C11_MarkerForcesListing ==
    \A r \in DOMAIN reqs :
        /\ (/\ Get(r) /\ Marker(r) /\ DirectoryWithIndex(r)
            /\ Q(r).fault = "none" /\ AcceptsPage(r))
           => Listing(r) \/ (Answered(r) /\ IsListing(r))
        /\ (/\ Resolved(r) /\ NamesDirectory(r) /\ DirectoryWithIndex(r)
            /\ Addressed(r) \in forced
            /\ Q(r).fault = "none" /\ Q(r).inm = <<>>)
           => IsIndexFile(r)

\* What the marker does for paths that end in '/': the listing is sent instead
\* of the index file, and only for that request.
MarkerListsSlashedPath ==
    \A r \in DOMAIN reqs :
        /\ (/\ Get(r) /\ Marker(r) /\ DirectoryWithIndex(r)
            /\ endsWith(Q(r).url, <<"/">>) /\ ~HasDotSegment(Q(r).url)
            /\ Q(r).fault = "none" /\ AcceptsPage(r))
           => Listing(r) \/ (Answered(r) /\ IsListing(r))
        /\ (/\ Resolved(r) /\ NamesDirectory(r) /\ DirectoryWithIndex(r)
            /\ Addressed(r) \in forced
            /\ Q(r).fault = "none" /\ Q(r).inm = <<>>)
           => IsIndexFile(r)

\* a directory listed for a '//' request is served by its index file afterwards
IndexAfterMarker ==
    \E r \in DOMAIN reqs :
        /\ Resolved(r) /\ NamesDirectory(r) /\ Addressed(r) \in forced
        /\ IsIndexFile(r)

\* C12: whenever res.format is called and the Accept header is satisfied by
\* none of the keys offered, the response has status 406 and a JSON body with
\* code 'UnsupportedType' and the offered keys, in the order offered, as its
\* types; no representation callback runs.
C12_Unsupported406 ==
    \A r \in DOMAIN reqs :
        Has(X(r), "format") /\ ~AcceptsPage(r) =>
            /\ Answered(r)
            /\ X(r).statusCode = 406
            /\ X(r).hType = <<"application/json">>
            /\ X(r).body.kind = "unsupported"
            /\ X(r).body.text = "UnsupportedType"
            /\ X(r).body.types = <<"html", "json", "text">>
            /\ X(r).body.fmt = "" /\ X(r).body.entries = {}

\* a listing was asked for by a client that accepts only image/png
C12_Witness ==
    \E r \in DOMAIN reqs :
        /\ Has(X(r), "format") /\ ~AcceptsPage(r)
        /\ Has(X(r), "readdir")
        /\ Answered(r) /\ X(r).statusCode = 406

\* the ways to read line l as  [&|&&] <requirement> <op> <replacement>:
\* <<number of &, first and last position of the requirement, position of op>>
Readings(l) ==
    {d \in (0..2) \X (1..Len(l)) \X (1..Len(l)) \X (1..Len(l)) :
        /\ d[1] < d[2] /\ d[2] <= d[3] /\ d[3] < d[4]
        /\ \A n \in 1..d[1] : l[n] = "&"
        /\ \A n \in (d[1] + 1)..(d[2] - 1) : l[n] = " "
        /\ l[d[2]] = "/"
        /\ \A n \in d[2]..d[3] : l[n] # " "
        /\ \A n \in (d[3] + 1)..(d[4] - 1) : l[n] = " "
        /\ l[d[4]] \in {":", "=", ">"}
        /\ \E m \in (d[4] + 1)..(Len(l) + 1) :
              /\ \A n \in (d[4] + 1)..(m - 1) : l[n] = " "
              /\ \A n \in m..Len(l) : l[n] # " "}

\* l has a qualifier and its requirement, up to the first operator that can end
\* it, does not end in '/'
AnchorViolated(l) ==
    \E d \in Readings(l) :
        /\ \A f \in Readings(l) : d[3] <= f[3]
        /\ d[1] > 0 /\ l[d[3]] # "/"

\* the positions of the lines of the route file that are neither blank nor a
\* comment, and break the grammar or the rule on qualifiers
BadLines ==
    {i \in 1..Len(ROUTES_FILE) :
        /\ stripped(ROUTES_FILE[i]) # <<>>
        /\ \/ Readings(stripped(ROUTES_FILE[i])) = {}
           \/ AnchorViolated(stripped(ROUTES_FILE[i]))}

\* C13 as stated: a malformed line makes route-table construction throw before
\* any request is served, with a message naming the 1-based position of the
\* line and the raw line text.
C13_MalformedLineRaw ==
    BadLines # {} /\ boot.phase # "load" =>
        /\ boot.phase = "failed"
        /\ rtOut = NoCall /\ served = 0
        /\ \E i \in BadLines :
              /\ boot.err.msg = "Malformed route at line"
              /\ boot.err.line = i
              /\ boot.err.text = ROUTES_FILE[i]

\* C13 amended: a malformed line makes route-table construction throw before
\* any request is served, with a message naming the 1-based position of the
\* first such line (blank and comment lines counted) and the text of that line
\* without its comment and its surrounding white space.
C13_MalformedLineFatal ==
    BadLines # {} /\ boot.phase # "load" =>
        /\ boot.phase = "failed"
        /\ rtOut = NoCall /\ served = 0
        /\ \E i \in BadLines :
              /\ \A j \in BadLines : i <= j
              /\ boot.err.msg = "Malformed route at line"
              /\ boot.err.line = i
              /\ boot.err.text = stripped(ROUTES_FILE[i])

\* construction failed on a second line that carries a comment, after a line
\* that is blank or a comment
C13_Witness ==
    /\ boot.phase = "failed"
    /\ boot.err.line = 2
    /\ stripped(ROUTES_FILE[1]) = <<>>
    /\ boot.err.text # ROUTES_FILE[2]
    /\ 2 \in BadLines

\* C14: a rule written with '&&' matches exactly the request paths the same
\* rule written with '&' matches.
C14_QualifiersEquivalent ==
    rtOut # NoCall =>
        \A i \in 1..Len(ROUTES) :
            ROUTES[i].g.q = "&&" =>
                ((try(ROUTES[i], rtPath) # undefined)
                 <=> (try(Rule("&", ROUTES[i].g.req, ROUTES[i].g.op, ROUTES[i].g.res),
                          rtPath) # undefined))

\* C15: with the route file line '&&/api/ := /v2/' the table is built, and
\* route('/API/foo') returns no redirect and the path '/v2/foo'.
C15_ApiExample ==
    (/\ ROUTES_FILE = << <<"&", "&", "/", "a", "p", "i", "/", " ", ":", "=", " ",
                           "/", "v", "2", "/">> >>
     /\ boot.phase # "load")
    => /\ boot.phase = "up"
       /\ (rtOut # NoCall /\ rtPath = <<"/", "A", "P", "I", "/", "f", "o", "o">>)
          => rtOut[1] = <<FALSE, <<"/", "v", "2", "/", "f", "o", "o">>>>

\* the trailing slashes of s collapsed to one
Collapsed(s) ==
    IF Len(s) > 0 /\ s[Len(s)] = "/"
    THEN LET n == CHOOSE n \in 0..Len(s) :
                    /\ \A k \in (n + 1)..Len(s) : s[k] = "/"
                    /\ (n > 0 => s[n] # "/")
         IN SubSeq(s, 1, n) \o <<"/">>
    ELSE s

\* C16: a rule without qualifier, with requirement R and replacement S, maps
\* every path R rest to S rest with its trailing slashes collapsed, as a
\* redirect when its operator is '>'.
C16_PrefixReplaced ==
    rtOut # NoCall =>
        \A i \in FirstMatch(rtPath) :
            ROUTES[i].g.q = "" =>
                rtOut[1] = <<ROUTES[i].g.op = ">",
                             Collapsed(ROUTES[i].g.res
                                       \o SubSeq(rtPath, Len(ROUTES[i].g.req) + 1,
                                                 Len(rtPath)))>>

\* C17: if no rule's requirement matches the path, route returns the path
\* unchanged with the redirect flag false.
C17_NoMatchPassThrough ==
    rtOut # NoCall /\ matching(ROUTES, rtPath) = {} => rtOut[1] = <<FALSE, rtPath>>

\* a path ending in '//' went through a table of rules that do not match it
C17_Witness ==
    /\ rtOut # NoCall /\ ROUTES # <<>> /\ matching(ROUTES, rtPath) = {}
    /\ endsWith(rtPath, <<"/", "/">>)
    /\ rtOut[1] = <<FALSE, rtPath>>

\* C18: whenever a rule matches, the path route returns does not end in two or
\* more '/': a run of trailing slashes is collapsed to exactly one.
C18_TrailingSlashesCollapsed ==
    rtOut # NoCall /\ matching(ROUTES, rtPath) # {} =>
        /\ ~endsWith(rtOut[1][2], <<"/", "/">>)
        /\ \A i \in FirstMatch(rtPath) :
              endsWith(try(ROUTES[i], rtPath)[1], <<"/">>) => endsWith(rtOut[1][2], <<"/">>)

\* the substitution of the matching rule produced a run of trailing slashes
C18_Witness ==
    /\ rtOut # NoCall
    /\ \E i \in FirstMatch(rtPath) : endsWith(try(ROUTES[i], rtPath)[1], <<"/", "/">>)
    /\ endsWith(rtOut[1][2], <<"/">>)
    /\ ~endsWith(rtOut[1][2], <<"/", "/">>)

\* some extension of the configured list holds '/' or '\'
SeparatorInExtensions ==
    /\ opts.extensions.on
    /\ \E i \in 1..Len(opts.extensions.list) :
          \/ includes(opts.extensions.list[i], <<"/">>)
          \/ includes(opts.extensions.list[i], <<"\\">>)

\* C19: constructing the static resolver with an extension that holds '/' or
\* '\' throws at setup time; no request is ever handled with such a
\* configuration.
C19_ExtensionTraversalRejected ==
    SeparatorInExtensions =>
        /\ boot.phase # "up"
        /\ served = 0
        /\ \A r \in DOMAIN reqs : ~Ran(r)
        /\ boot.phase # "load" =>
              /\ crashed
              /\ boot.err.msg = "Extension path traversal is not allowed"

\* set-up was refused for a list whose second extension holds a separator
C19_Witness ==
    /\ SeparatorInExtensions
    /\ Len(opts.extensions.list) = 2
    /\ ~includes(opts.extensions.list[1], <<"/">>)
    /\ boot.phase = "failed"
    /\ boot.err.msg = "Extension path traversal is not allowed"

\* C20: no directory listing, in any representation and under any dotfiles
\* policy, holds an entry whose name starts with '.'.
C20_NoDotEntries ==
    \A r \in DOMAIN reqs :
        X(r).body.kind = "listing" =>
            /\ \A e \in X(r).body.entries : e.name[1] # "."
            /\ \A n \in X(r).plist : n[1] # "."

\* a directory that holds a dot entry was listed
C20_Witness ==
    \E r \in DOMAIN reqs :
        /\ Answered(r) /\ X(r).body.kind = "listing"
        /\ \E n \in readdir(fs, Addressed(r)) : n[1] = "."
        /\ X(r).body.entries # {}
        /\ opts.dotfiles = "allow"

---------------------------------------------------------------------------
(* The static handler's way out on a miss: static.ts:99-108 *)

\* the handler was called by itself and has returned
Returned(r) == reqs[r].pc = "static"

\* the policy stops the request, or the resolution order selects no file
Miss(r) ==
    \/ DotBlocked(r)
    \/ /\ Target(r) = <<>>
       /\ (existsSync(fs, StaticPath(r)) => Q(r).fault # "stat")

\* the code of the StaticError of a miss
MissCode(r) == IF DotBlocked(r) /\ opts.dotfiles = "deny" THEN 403 ELSE 404

\* nothing of the response was written
Untouched(x) ==
    /\ ~x.sent
    /\ x.body = NoBody
    /\ ~Has(x, "end") /\ ~Has(x, "header")
    /\ x.hType = <<>> /\ x.hLen = <<>> /\ x.hEtag = <<>> /\ x.hLocation = <<>>

\* C21: on a policy miss the static handler, with fallthrough, sets the status
\* to the code of the miss (403 or 404), writes no body, does not end the
\* response and calls next(); without fallthrough it calls next(err) with the
\* StaticError and leaves the status alone.
C21_MissFallsThroughOrErrs ==
    \A r \in DOMAIN reqs :
        (Returned(r) /\ Miss(r)) =>
            /\ Untouched(X(r))
            /\ IF opts.fallthrough
               THEN X(r).ctl = "next" /\ X(r).statusCode = MissCode(r)
               ELSE /\ X(r).ctl = "nextErr"
                    /\ X(r).exc = [kind |-> "StaticError", code |-> MissCode(r)]
                    /\ X(r).statusCode = 200

C21_Witness ==
    \E r \in DOMAIN reqs :
        /\ Returned(r) /\ Miss(r) /\ opts.fallthrough
        /\ X(r).ctl = "next" /\ X(r).statusCode = 403

\* the other half happens too: next(err) with a 404
MissWithoutFallthrough ==
    \E r \in DOMAIN reqs :
        /\ Returned(r) /\ Miss(r) /\ ~opts.fallthrough /\ ~DotBlocked(r)
        /\ X(r).ctl = "nextErr" /\ X(r).exc.code = 404

---------------------------------------------------------------------------
(* The status codes of finalized responses *)

StatusCodes == {200, 302, 304, 403, 404, 406, 500}

\* the response carries a file or a directory listing
FileOrListing(x) == x.body.kind \in {"file", "listing"}

\* the response is the redirect a '>' rule asked for
IsRedirect(r) ==
    /\ RedirectRule(r)
    /\ X(r).hLocation # <<>>
    /\ X(r).body.kind = "empty"

\* the response tells that the file the request resolves to is unchanged
IsNotModified(r) ==
    /\ X(r).body.kind = "empty"
    /\ Validated(r) \in DOMAIN fs
    /\ fs[Validated(r)].kind = "file"
    /\ X(r).hLen = <<LenOfStats(fs[Validated(r)])>>
    /\ Q(r).inm = <<etagOf(fs[Validated(r)])>>

\* C22: every finalized response has a status in {200, 302, 304, 403, 404,
\* 406, 500}; 200 goes only with a file body or a directory listing, 302 only
\* with a redirect, 304 only with a not-modified answer for a file.
C22_StatusCodes ==
    \A r \in DOMAIN reqs :
        Answered(r) =>
            /\ X(r).statusCode \in StatusCodes
            /\ (X(r).statusCode = 200 => FileOrListing(X(r)))
            /\ (X(r).statusCode = 302 => IsRedirect(r))
            /\ (X(r).statusCode = 304 => IsNotModified(r))

C22_Witness ==
    \E r \in DOMAIN reqs :
        /\ Answered(r) /\ X(r).statusCode = 404 /\ X(r).body.kind = "page"
        /\ Has(X(r), "static") /\ Has(X(r), "fileHandler")

---------------------------------------------------------------------------
(* The dotfile policies ignore and allow *)

\* the path the request is resolved by has a segment starting with '.'
DotPath(r) == HasDotSegment(IF Marker(r) THEN ReqPath(r) ELSE RoutedPath(r))

\* a GET request that no rule redirects
NotRedirected(r) == Get(r) /\ (Marker(r) \/ ~RedirectRule(r))

\* the answer is the not-found page (406 for a client that accepts no page)
\* and nothing was opened or listed for it
Hidden(r) ==
    /\ Answered(r)
    /\ X(r).statusCode = IF AcceptsPage(r) THEN 404 ELSE 406
    /\ ~FileOrListing(X(r))
    /\ ~Has(X(r), "open") /\ ~Has(X(r), "readdir")

\* the answer the resolution order gives for a path without dot segment:
\* the file selected, or the listing of a directory without index file
ServedLikeAny(r) ==
    IF Target(r) # <<>> THEN ServesFile(X(r), Target(r)[1])
    ELSE NamesDirectory(r) =>
            \/ Listing(r)
            \/ Answered(r) /\ IF AcceptsPage(r) THEN IsListing(r)
                               ELSE X(r).statusCode = 406

\* C23: under dotfiles = ignore a GET request that is not redirected and whose
\* path has a segment starting with '.' ends with 404, whether or not the
\* file or directory exists, and nothing of it is streamed or listed; under
\* dotfiles = allow an existing dotfile is served like any other file.
C23_IgnoreHidesAllowServes ==
    \A r \in DOMAIN reqs :
        /\ (opts.dotfiles = "ignore" /\ NotRedirected(r) /\ DotPath(r)) => Hidden(r)
        /\ (opts.dotfiles = "allow" /\ Resolved(r) /\ DotPath(r) /\ Q(r).fault = "none")
              => ServedLikeAny(r)

\* what holds of it: ignore hides every dot path ...
IgnoreHidesDotPaths ==
    \A r \in DOMAIN reqs :
        (opts.dotfiles = "ignore" /\ NotRedirected(r) /\ DotPath(r)) => Hidden(r)

\* ... and allow serves the dot paths the resolver selects a file for
AllowServesDotFiles ==
    \A r \in DOMAIN reqs :
        (/\ opts.dotfiles = "allow" /\ Resolved(r) /\ DotPath(r)
         /\ Q(r).fault = "none" /\ Target(r) # <<>>)
           => ServesFile(X(r), Target(r)[1])

---------------------------------------------------------------------------
(* Concurrent requests *)

\* index.ts:815-843 with nothing in between: readdir and the stats settle
\* and the listing is sent, or the async function rejects
listed(o, F, req, x) ==
    LET k == listKey(x)
        plist == listNames(F, k)
        x1 == [x EXCEPT !.plist = plist]
        x2 == IF plist = {} THEN x1 ELSE ev(x1, "stat")
    IN IF ~(req.fault # "readdir" /\ k \in DOMAIN F /\ F[k].kind = "dir")
       THEN [throw(x, "Error", 0) EXCEPT !.ctl = "reject"]
       ELSE IF plist # {} /\ req.fault = "stat"
       THEN [throw(x2, "Error", 0) EXCEPT !.ctl = "reject"]
       ELSE listing(o, req, x2, x.lpath, flist(F, k, plist))

\* the response of a request that is handled with no other request around
alone(o, F, T, req) ==
    With(genHandler(o, F, T, req, NewRes(req.url)), LAMBDA x :
        IF x.ctl = "await" THEN listed(o, F, req, x) ELSE x)

\* status, headers and body of a response
Wire(x) == <<x.statusCode, x.hLocation, x.hCache, x.hType, x.hLen, x.hEtag, x.body>>

\* C24: on a file tree that does not change, whatever the interleaving of
\* two requests at readdir and stat, each request gets the response (status,
\* headers, body) it gets when handled alone, and handling a request changes
\* neither the route table nor the static options.
C24_RequestsIsolated ==
    /\ boot.phase = "up" => ROUTES = Routes0 /\ opts \in ServerOptions
    /\ \A r \in DOMAIN reqs :
          With(alone(opts, fs, ROUTES, Q(r)), LAMBDA a :
             (Ran(r) /\ a.ctl = "ret") =>
                \/ Answered(r) /\ Wire(X(r)) = Wire(a)
                \/ Listing(r) /\ ~crashed)

\* what holds of it: a response that is finalized is the one the request
\* gets alone, and ROUTES and the options stay as start-up left them
AnsweredAsAlone ==
    /\ boot.phase = "up" => ROUTES = Routes0 /\ opts \in ServerOptions
    /\ \A r \in DOMAIN reqs :
          Answered(r) => X(r) = alone(opts, fs, ROUTES, Q(r))

\* a request suspended at readdir when another request ends the process
SuspendedAtCrash ==
    \E r \in DOMAIN reqs :
        /\ Listing(r) /\ crashed
        /\ alone(opts, fs, ROUTES, Q(r)).ctl = "ret"

---------------------------------------------------------------------------
(* The '..' row of the HTML listing *)

\* the request was answered with the HTML listing of a directory
HtmlListing(r) ==
    Answered(r) /\ X(r).body.kind = "listing" /\ X(r).body.fmt = "html"

\* the directory listed is the root of the tree served
ListsRoot(r) == listKey(X(r)) = <<>>

\* C25: the HTML listing has a '..' row for every directory listed except
\* the listing root, and has none when the root itself is listed, whichever
\* request path produced the listing, a path with the '//' marker included.
C25_ParentRowUnlessRoot ==
    \A r \in DOMAIN reqs :
        HtmlListing(r) => (X(r).body.up <=> ~ListsRoot(r))

\* what holds of it: the same for the requests without the marker
ParentRowWithoutMarker ==
    \A r \in DOMAIN reqs :
        (HtmlListing(r) /\ ~Marker(r)) => (X(r).body.up <=> ~ListsRoot(r))

\* the root and another directory are listed in HTML without the marker
RootListedPlain ==
    \E r \in DOMAIN reqs : HtmlListing(r) /\ ~Marker(r) /\ ListsRoot(r)

---------------------------------------------------------------------------
(* The ETag value *)

\* the request was answered with an ETag header
Tagged(r) == Answered(r) /\ X(r).hEtag # <<>> /\ X(r).stats # <<>>

\* size and modification time of the file, as the handler of r read them
SizeAndMtime(r) == <<X(r).stats[1].size, X(r).stats[1].mtime>>

SameEtagTwice ==
    \E r1, r2 \in DOMAIN reqs :
        /\ r1 # r2 /\ Tagged(r1) /\ Tagged(r2) /\ Q(r1).url = Q(r2).url
        /\ SizeAndMtime(r1) = SizeAndMtime(r2) /\ X(r1).hEtag = X(r2).hEtag

---------------------------------------------------------------------------
(* The order of the steps of a request *)

\* the position of the first event e in the history of x, 0 when there is none
Pos(x, e) ==
    IF Has(x, e) THEN CHOOSE i \in 1..Len(x.tr) :
                          x.tr[i] = e /\ \A j \in 1..(i - 1) : x.tr[j] # e
    ELSE 0

\* route evaluation came first for the request
RouteFirst(x) == Len(x.tr) > 0 /\ x.tr[1] = "route"

\* the redirect was sent right after route evaluation: no resolver, no file
\* handler, no file system call in between
RedirectedFromRoute(x) ==
    ~Has(x, "static") /\ ~Has(x, "fileHandler") /\ NoFsCall(x)

\* the path resolver ran after route evaluation and before the answer
ResolvedBeforeEnd(x) ==
    /\ Pos(x, "route") > 0
    /\ Pos(x, "route") < Pos(x, "static")
    /\ Pos(x, "static") < Pos(x, "end")

\* C27: every request follows the state machine: route evaluation comes
\* before any other decision, Redirected is entered directly from
\* RouteEvaluated, and NotModified, BodyStreamed, Listed, PolicyError and
\* UnexpectedError are entered only after route evaluation and path
\* resolution took place for the request.
C27_StateMachine ==
    \A r \in DOMAIN reqs :
        Answered(r) =>
            /\ RouteFirst(X(r))
            /\ IF X(r).statusCode = 302 THEN RedirectedFromRoute(X(r))
               ELSE ResolvedBeforeEnd(X(r))

\* what holds of it: the same for the GET requests without the '//' marker
StateMachineWithoutMarker ==
    \A r \in DOMAIN reqs :
        (Answered(r) /\ Q(r).method = "GET" /\ ~Marker(r)) =>
            /\ RouteFirst(X(r))
            /\ IF X(r).statusCode = 302 THEN RedirectedFromRoute(X(r))
               ELSE ResolvedBeforeEnd(X(r))

\* a listing sent for a request that was neither routed nor resolved
ListedUnrouted ==
    \E r \in DOMAIN reqs :
        /\ Answered(r) /\ X(r).body.kind = "listing"
        /\ ~Has(X(r), "route") /\ ~Has(X(r), "static")

---------------------------------------------------------------------------
(* One finalization per response *)

\* how often the response was finalized: end(), redirect, 304 or pipe
Ends(x) == Cardinality({i \in 1..Len(x.tr) : x.tr[i] = "end"})

\* nothing was done to the response after it was finalized: no header, no
\* body, no handler
EndIsLast(x) == Has(x, "end") => x.tr[Len(x.tr)] = "end"

\* C28: on every path through genHandler, the static handler, fileHandler,
\* the page handlers and res.format the response is finalized at most once
\* (one of end(), redirect, the 304 end and the stream pipe), a finalized
\* response was finalized exactly once, and no handler writes headers or a
\* body after that.
C28_FinalizedOnce ==
    \A r \in DOMAIN reqs :
        /\ Ends(X(r)) <= 1
        /\ EndIsLast(X(r))
        /\ (X(r).sent <=> Ends(X(r)) = 1)
        /\ (Answered(r) => Ends(X(r)) = 1)

C28_Witness ==
    \E r \in DOMAIN reqs :
        /\ Answered(r) /\ Ends(X(r)) = 1
        /\ Has(X(r), "static") /\ Has(X(r), "fileHandler") /\ Has(X(r), "format")
        /\ X(r).body.kind = "listing"

---------------------------------------------------------------------------
(* The query string *)

\* the request has a query string
HasQuery(r) == includes(Q(r).url, <<"?">>)

\* the same request without its query string
Queryless(r) == [Q(r) EXCEPT !.url = getPath(@)]

\* C29: the query string never changes the file system target: for a GET
\* request the path handed to the static resolver and to the file handler is
\* the routed path alone, so '/p?q' and '/p' resolve to the same file or
\* directory.
C29_QueryIgnored ==
    \A r \in DOMAIN reqs :
        (Answered(r) /\ Get(r) /\ ~Marker(r) /\ ~RedirectRule(r)) =>
            /\ X(r).url = RoutedPath(r)
            /\ With(alone(opts, fs, ROUTES, Queryless(r)), LAMBDA a :
                    a.ctl = "ret" => Wire(X(r)) = Wire(a))

\* what holds of it: without a query string the resolver gets the routed path
QuerylessResolvesRouted ==
    \A r \in DOMAIN reqs :
        (Answered(r) /\ Get(r) /\ ~Marker(r) /\ ~RedirectRule(r) /\ ~HasQuery(r)) =>
            X(r).url = RoutedPath(r)

---------------------------------------------------------------------------
(* Requests with another method than GET *)

\* the handler of r ran for a request that is no GET
NotGet(r) == Ran(r) /\ Q(r).method # "GET"

\* the answer is the not-found page, or the 406 of a client that accepts no
\* page, sent by notFoundHandler alone: no route rule was evaluated, the
\* file system was not touched, no other handler ran
NotFoundOnly(r) ==
    /\ Answered(r)
    /\ X(r).statusCode = IF AcceptsPage(r) THEN 404 ELSE 406
    /\ IF AcceptsPage(r) THEN X(r).body.kind \in {"page", "text"}
       ELSE X(r).body.kind = "unsupported"
    /\ X(r).tr = <<"notFoundHandler", "header", "format", "header", "log", "end">>

\* C30: every request whose method is not GET is answered with the
\* negotiated 404 page (or 406), without evaluating any route rule, without
\* any file system access, and no other handler runs for it afterwards.
C30_NotGetNotFound ==
    \A r \in DOMAIN reqs : NotGet(r) => NotFoundOnly(r)

\* what holds of it: the same for the requests whose path decodes
NotGetDecodable ==
    \A r \in DOMAIN reqs :
        (NotGet(r) /\ ~decodeThrows(getPath(Q(r).url))) => NotFoundOnly(r)

\* a request that is no GET is answered by notFoundHandler
NotGetAnswered ==
    \E r \in DOMAIN reqs : NotGet(r) /\ NotFoundOnly(r) /\ X(r).statusCode = 404

---------------------------------------------------------------------------
(* What a '//' request can end as *)

\* a GET request whose path begins with '//' and decodes
MarkerGet(r) == Get(r) /\ Marker(r)

\* some rule of the route table matches the path of the request
RuleMatches(r) == matching(ROUTES, ReqPath(r)) # {}

\* the answer is a directory listing, the 404 page or a 406
ListingOr404Or406(x) ==
    \/ x.statusCode = 200 /\ x.body.kind = "listing"
    \/ x.statusCode = 404 /\ x.body.kind \in {"page", "text"}
    \/ x.statusCode = 406 /\ x.body.kind = "unsupported"

\* C31: a GET request whose path begins with '//' never invokes the route
\* engine or the static resolver, and it can end only as a directory listing
\* (200), a 404 page or a 406: never as a file body, a 304, a 302 or a 403,
\* whatever the route rules and the dotfiles policy are.
C31_MarkerBypasses ==
    \A r \in DOMAIN reqs :
        MarkerGet(r) =>
            /\ ~Has(X(r), "route") /\ ~Has(X(r), "static")
            /\ X(r).hEtag = <<>> /\ X(r).hLocation = <<>>
            /\ (X(r).sent => ListingOr404Or406(X(r)))
            /\ (Answered(r) => X(r).sent)

C31_Witness ==
    \E r \in DOMAIN reqs :
        /\ MarkerGet(r) /\ Answered(r) /\ RuleMatches(r)
        /\ X(r).statusCode = 200 /\ X(r).body.kind = "listing"
        /\ opts.dotfiles = "deny"

---------------------------------------------------------------------------
(* Every accepted request is answered *)

\* no file system call of the request failed: none was made to fail, and
\* neither readdir nor stat threw
NoFsFailure(r) == Q(r).fault = "none" /\ X(r).exc.kind # "Error"

\* the response is finalized, or the handler is suspended at readdir or stat
\* in a process that is alive
FinalizedOrUnderWay(r) ==
    \/ Answered(r) /\ X(r).sent
    \/ Listing(r) /\ ~crashed

\* C32: provided no file system call fails, every request the server accepted
\* gets its response finalized (redirect, 304, file stream, listing, error
\* page or 406): no path through the handlers returns without finalizing the
\* response or handing the request to a handler that does.
C32_EveryRequestFinalized ==
    \A r \in DOMAIN reqs :
        (Ran(r) /\ NoFsFailure(r)) => FinalizedOrUnderWay(r)

\* what holds of it: the same for the requests whose path decodes
DecodableFinalized ==
    \A r \in DOMAIN reqs :
        (Ran(r) /\ NoFsFailure(r) /\ ~decodeThrows(getPath(Q(r).url)))
            => FinalizedOrUnderWay(r)

\* a request left without answer although no file system call failed
UnansweredWithoutFsFailure ==
    \E r \in DOMAIN reqs :
        /\ Ran(r) /\ NoFsFailure(r) /\ Q(r).method = "GET"
        /\ reqs[r].pc = "failed" /\ ~X(r).sent

---------------------------------------------------------------------------
(* The request logger *)

\* how often reqLog was invoked for the request
Logs(x) == Cardinality({i \in 1..Len(x.tr) : x.tr[i] = "log"})

\* C33: for every request reqLog is invoked exactly once, and before the
\* response is finalized, on every path: redirect, file body, 304, directory
\* listing, 403, 404 and 500 page, and 406.
C33_LoggedOnceBeforeEnd ==
    \A r \in DOMAIN reqs :
        /\ Logs(X(r)) <= 1
        /\ X(r).sent => (Logs(X(r)) = 1 /\ Pos(X(r), "log") < Pos(X(r), "end"))

C33_Witness ==
    \E r \in DOMAIN reqs :
        /\ Answered(r) /\ X(r).statusCode = 500 /\ X(r).body.kind = "page"
        /\ Logs(X(r)) = 1 /\ Has(X(r), "errorHandler")

---------------------------------------------------------------------------
(* pendingRequests, the ticker and the 'close' listener *)

pendingRequests == {r \in DOMAIN reqs : X(r).pending}

\* the 'close' listener of the request has run
CloseHandled(r) == X(r).found # "none"

\* C34: in every interleaving of the status ticker with the 'close' events,
\* the request still has its entry in pendingRequests when the 'close'
\* listener of its response runs (the ticker never removes the entry of a
\* request whose listener has not yet run), and once the listener has run the
\* request is no longer in pendingRequests.
C34_EntryUntilClose ==
    \A r \in DOMAIN reqs :
        /\ X(r).found # "undefined"
        /\ ~X(r).swept
        /\ CloseHandled(r) => r \notin pendingRequests

\* what holds of it: after the listener the entry is gone, and the ticker
\* deletes only entries of requests that are closed
GoneAfterClose ==
    \A r \in DOMAIN reqs :
        /\ CloseHandled(r) => r \notin pendingRequests
        /\ X(r).swept => X(r).closed

\* the listener ran after the ticker had deleted the entry
ListenerFindsNothing ==
    \E r \in DOMAIN reqs : X(r).found = "undefined" /\ X(r).swept /\ crashed

\* the client went away while the listing was read: 'close' came before
\* reqLog, the listener never runs and the ticker deletes the entry
SweptWithoutListener ==
    \E r \in DOMAIN reqs :
        /\ X(r).swept /\ X(r).closeEmitted /\ ~CloseHandled(r)
        /\ X(r).body.kind = "listing" /\ Pos(X(r), "readdir") < Pos(X(r), "log")

====
